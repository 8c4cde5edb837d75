--------------------------- MODULE CheckpointProofs ---------------------------
(***************************************************************************)
(* What the worker does to the checkpoints of a Run, proved on top of the  *)
(* lock invariant of CommandWorkerProofs.                                  *)
(***************************************************************************)
EXTENDS CommandWorkerProofs

(***************************************************************************)
(* The inductive invariant.  A runnable checkpoint is the latest of its    *)
(* Run; a slot runs the Graph either from the latest checkpoint, which is  *)
(* its own and not stable, or for a Command without a checkpoint on a Run  *)
(* that has none or that waits; and a slot settles a start or a resume at  *)
(* the stable checkpoint it names.                                         *)
(***************************************************************************)
RunnableIsLatest ==
    \A c \in Commands : graph[c].status = "running" => latest[RunOf[c]] = c

LatestIsWritten ==
    \A r \in Runs : ~NotStarted(r) => RunOf[latest[r]] = r /\ graph[latest[r]].status # "none"

Unstable == {"running", "to_wait", "to_end"}

ContinuesOwn(s) == latest[Run(s)] = Cmd(s) /\ graph[Cmd(s)].status \in Unstable

BeginsOn(s) ==
    /\ graph[Cmd(s)].status = "none"
    /\ NotStarted(Run(s)) \/ graph[latest[Run(s)]].status \in {"waiting", "to_wait"}

ExecutesFromLatest ==
    \A s \in Slots : slot[s].pc \in GraphPhases => ContinuesOwn(s) \/ BeginsOn(s)

SettlesAtOwn ==
    \A s \in Slots :
        /\ At(s, "observe") => Stable(graph[Cmd(s)].status)
        /\ At(s, "apply") /\ Kind[Cmd(s)] # "cancel"
              => Stable(graph[Cmd(s)].status) /\ slot[s].checkpoint = OwnCheckpoint(Cmd(s))

CheckpointInv ==
    /\ RunnableIsLatest
    /\ LatestIsWritten
    /\ ExecutesFromLatest
    /\ SettlesAtOwn
    /\ AppliedAtOwnBoundary
\* The status of an unstable checkpoint, and of a terminal one.
LEMMA StatusFacts ==
    ASSUME NEW status \in GraphStatuses
    PROVE  /\ Stable(status) <=> status \in {"waiting", "terminal"}
           /\ Classify(status) = "terminal" <=> status = "terminal"
           /\ Classify(status) = "runnable" <=> status = "running"
  BY DEF Stable, Classify, GraphStatuses

\* A slot in a Graph phase has a Command, whose status is one of the six.
LEMMA GraphPhaseFacts ==
    ASSUME WorkerInv, NEW s \in Slots, slot[s].pc \in GraphPhases
    PROVE  /\ Cmd(s) \in Commands /\ Run(s) \in Runs
           /\ graph[Cmd(s)].status \in GraphStatuses
  <1>1. Cmd(s) \in Commands
    BY DEF WorkerInv, SlotOwnsCommand, At, GraphPhases
  <1> QED
    BY <1>1, CommandsAssumption DEF Run, WorkerInv, TypeOK, GraphState

\* A step writes checkpoints only through one slot in a Graph phase.
LEMMA GraphChanges ==
    ASSUME WorkerInv, [Next]_vars
    PROVE  UNCHANGED graphVars \/ \E s \in Slots : Committed(s)
  <1>1. ASSUME NEW s \in Slots, SlotStep(s) \/ SlotFault(s)
        PROVE UNCHANGED graphVars \/ Committed(s)
    BY <1>1, SlotStepGraph
  <1>2. ASSUME \E s \in Slots, c \in Commands : Claim(s, c) PROVE UNCHANGED graphVars
    BY <1>2 DEF Claim
  <1>3. ASSUME \E p \in Claimants : Crash(p) PROVE UNCHANGED graphVars
    BY <1>3 DEF Crash
  <1>4. ASSUME Background PROVE UNCHANGED graphVars
    BY <1>4, BackgroundStep
  <1>5. ASSUME UNCHANGED vars PROVE UNCHANGED graphVars
    BY <1>5 DEF vars, graphVars
  <1> QED
    BY <1>1, <1>2, <1>3, <1>4, <1>5, NextCases

\* A stable checkpoint is never replaced.
LEMMA StableStep ==
    ASSUME WorkerInv, ExecutesFromLatest, [Next]_vars, NEW c \in Commands,
           Stable(graph[c].status)
    PROVE  graph'[c] = graph[c]
  <1>1. CASE UNCHANGED graphVars
    BY <1>1 DEF graphVars
  <1>2. ASSUME NEW s \in Slots, Committed(s) PROVE graph'[c] = graph[c]
    <2>1. slot[s].pc \in GraphPhases
      BY <1>2 DEF Committed
    <2>2. graph[Cmd(s)].status \in Unstable \cup {"none"}
      BY <2>1 DEF ExecutesFromLatest, ContinuesOwn, BeginsOn
    <2>3. ~Stable(graph[Cmd(s)].status)
      BY <2>1, <2>2, GraphPhaseFacts, StatusFacts DEF Unstable
    <2>4. c # Cmd(s)
      BY <2>3
    <2> QED
      BY <1>2, <2>4, CommittedTypes
  <1> QED
    BY <1>1, <1>2, GraphChanges

\* A Run that has ended is not written to.
LEMMA FinishedStep ==
    ASSUME WorkerInv, ExecutesFromLatest, [Next]_vars, NEW r \in Runs,
           ~NotStarted(r), LatestDisposition(r) = "terminal"
    PROVE  latest'[r] = latest[r]
  <1>0. latest[r] \in Commands /\ graph[latest[r]].status = "terminal"
    <2>1. latest[r] \in Commands
      BY DEF WorkerInv, TypeOK, NotStarted
    <2>2. graph[latest[r]].status \in GraphStatuses
      BY <2>1 DEF WorkerInv, TypeOK, GraphState
    <2> QED
      BY <2>1, <2>2, StatusFacts DEF LatestDisposition, OwnDisposition
  <1>1. CASE UNCHANGED graphVars
    BY <1>1 DEF graphVars
  <1>2. ASSUME NEW s \in Slots, Committed(s) PROVE latest'[r] = latest[r]
    <2>1. slot[s].pc \in GraphPhases
      BY <1>2 DEF Committed
    <2>2. Run(s) # r
      BY <1>0, <2>1 DEF ExecutesFromLatest, ContinuesOwn, BeginsOn, Unstable
    <2>3. latest' = [latest EXCEPT ![Run(s)] = Cmd(s)]
      BY <1>2, CommittedTypes
    <2> QED
      BY <2>2, <2>3 DEF WorkerInv, TypeOK
  <1> QED
    BY <1>1, <1>2, GraphChanges

\* The latest checkpoint of a Run stays the only runnable one.
LEMMA LatestStep ==
    ASSUME WorkerInv, CheckpointInv, [Next]_vars
    PROVE  RunnableIsLatest' /\ LatestIsWritten'
  <1>1. CASE UNCHANGED graphVars
    BY <1>1 DEF graphVars, CheckpointInv, RunnableIsLatest, LatestIsWritten, NotStarted
  <1>2. ASSUME NEW s \in Slots, Committed(s) PROVE RunnableIsLatest' /\ LatestIsWritten'
    <2> DEFINE c == Cmd(s)
    <2> DEFINE r == Run(s)
    <2>1. slot[s].pc \in GraphPhases
      BY <1>2 DEF Committed
    <2>2. c \in Commands /\ r \in Runs /\ r = RunOf[c]
      BY <2>1, GraphPhaseFacts DEF Run
    <2>3. /\ latest' = [latest EXCEPT ![r] = c]
          /\ graph'[c].status # "none"
          /\ \A d \in Commands \ {c} : graph'[d] = graph[d]
      BY <1>2, CommittedTypes
    <2>4. latest'[r] = c /\ \A q \in Runs \ {r} : latest'[q] = latest[q]
      BY <2>2, <2>3 DEF WorkerInv, TypeOK
    <2>5. \A d \in Commands \ {c} : RunOf[d] = r => graph[d].status # "running"
      <3> SUFFICES ASSUME NEW d \in Commands \ {c}, RunOf[d] = r, graph[d].status = "running"
                   PROVE FALSE
        OBVIOUS
      <3>1. latest[r] = d
        BY DEF CheckpointInv, RunnableIsLatest
      <3>2. d # NoCommand
        BY SlotsAssumption
      <3> QED
        BY <2>1, <3>1, <3>2
        DEF CheckpointInv, ExecutesFromLatest, ContinuesOwn, BeginsOn, NotStarted
    <2>6. RunnableIsLatest'
      <3> SUFFICES ASSUME NEW d \in Commands, graph'[d].status = "running"
                   PROVE latest'[RunOf[d]] = d
        BY DEF RunnableIsLatest
      <3>1. CASE d = c
        BY <2>2, <2>4, <3>1
      <3>2. CASE d # c
        <4>1. graph[d].status = "running" /\ RunOf[d] \in Runs
          BY <2>3, <3>2, CommandsAssumption
        <4>2. RunOf[d] # r
          BY <2>5, <3>2, <4>1
        <4> QED
          BY <2>4, <4>1, <4>2 DEF CheckpointInv, RunnableIsLatest
      <3> QED
        BY <3>1, <3>2
    <2>7. LatestIsWritten'
      <3> SUFFICES ASSUME NEW q \in Runs, latest'[q] # NoCommand
                   PROVE RunOf[latest'[q]] = q /\ graph'[latest'[q]].status # "none"
        BY DEF LatestIsWritten, NotStarted
      <3>1. CASE q = r
        BY <2>2, <2>3, <2>4, <3>1
      <3>2. CASE q # r
        <4>1. /\ latest'[q] = latest[q] /\ latest[q] \in Commands
              /\ RunOf[latest[q]] = q /\ graph[latest[q]].status # "none"
          BY <2>4, <3>2 DEF CheckpointInv, LatestIsWritten, NotStarted, WorkerInv, TypeOK
        <4>2. latest[q] # c
          BY <2>2, <3>2, <4>1
        <4> QED
          BY <2>3, <4>1, <4>2
      <3> QED
        BY <3>1, <3>2
    <2> QED
      BY <2>6, <2>7
  <1> QED
    BY <1>1, <1>2, GraphChanges
\* A slot that enters or continues the Graph does so from the latest
\* checkpoint of the Run.
LEMMA SlotExecutesFromLatest ==
    ASSUME WorkerInv, CheckpointInv, NEW s \in Slots, SlotStep(s) \/ SlotFault(s),
           slot'[s].pc \in GraphPhases
    PROVE  (ContinuesOwn(s) \/ BeginsOn(s))'
  <1> DEFINE c == Cmd(s)
  <1> DEFINE r == Run(s)
  <1>0. /\ TypeOK /\ Moved(s) /\ slot[s].pc # "idle"
    BY SlotStepShape
    DEF WorkerInv, Shape, Entered, Stayed, Left, Outside, LockedPhases
  <1>1. c \in Commands /\ r \in Runs /\ slot'[s].cmd = c /\ graph[c].status \in GraphStatuses
    BY <1>0, CommandsAssumption
    DEF WorkerInv, SlotOwnsCommand, At, Run, Cmd, Moved, GraphPhases, TypeOK, GraphState
  <1>2. ASSUME UNCHANGED graphVars, ContinuesOwn(s) \/ BeginsOn(s)
        PROVE (ContinuesOwn(s) \/ BeginsOn(s))'
    BY <1>1, <1>2 DEF graphVars, ContinuesOwn, BeginsOn, Run, Cmd, NotStarted
  <1>3. ASSUME Committed(s), graph'[c].status \in Unstable
        PROVE (ContinuesOwn(s) \/ BeginsOn(s))'
    <2>1. latest' = [latest EXCEPT ![r] = c]
      BY <1>3, CommittedTypes
    <2>2. latest'[r] = c
      BY <1>0, <1>1, <2>1 DEF TypeOK
    <2> QED
      BY <1>1, <1>3, <2>2 DEF ContinuesOwn, Run, Cmd
  <1>4. CASE Quiet(s)
    BY <1>0, <1>4, QuietPhases DEF GraphPhases
  <1>5. CASE DecideCancel(s) \/ ReconcileExhausted(s) \/ Observe(s) \/ RejectUnstarted(s) \/ GraphStops(s)
    <2>1. slot'[s].pc \in {"apply", "retry", "unstart", "reject", "observe"}
      BY <1>0, <1>5
      DEF DecideCancel, ReconcileExhausted, Observe, RejectUnstarted, GraphStops,
          Raise, Goto, ToApply, ToReject, TypeOK, SlotState
    <2> QED
      BY <2>1 DEF GraphPhases
  <1>6. CASE ReconcileOwn(s)
    <2>1. OwnDisposition(c) = "runnable"
      <3>1. CASE ToApply(s, OwnCheckpoint(c)) \/ Raise(s)
        BY <1>0, <3>1 DEF ToApply, Raise, Goto, GraphPhases, TypeOK, SlotState
      <3> QED
        BY <1>6, <3>1 DEF ReconcileOwn
    <2>2. graph[c].status = "running" /\ latest[r] = c
      BY <1>1, <2>1, StatusFacts DEF OwnDisposition, CheckpointInv, RunnableIsLatest, Run
    <2> QED
      BY <1>2, <1>6, <2>2 DEF ReconcileOwn, ContinuesOwn, Unstable
  <1>7. CASE DecideStart(s)
    BY <1>2, <1>7 DEF DecideStart, BeginsOn, Run
  <1>8. CASE DecideResume(s)
    <2>1. ResumeAccepted(c)
      <3>1. CASE \E code \in RejectionCodes : ToReject(s, code)
        BY <1>0, <3>1 DEF ToReject, GraphPhases, TypeOK, SlotState
      <3> QED
        BY <1>8, <3>1 DEF DecideResume, RejectionCodes
    <2> QED
      BY <1>2, <1>8, <2>1 DEF DecideResume, ResumeAccepted, BeginsOn, Run
  <1>9. CASE ControlGuard(s)
    <2>0. slot[s].pc \in GraphPhases
      BY <1>9 DEF ControlGuard, At, GraphPhases
    <2>1. graph[c].status \in Unstable \cup {"none"}
      BY <2>0 DEF CheckpointInv, ExecutesFromLatest, ContinuesOwn, BeginsOn
    <2>2. GuardedStatus(c) \in Unstable
      BY <2>1 DEF GuardedStatus, Unstable
    <2>3. graph'[c].status = GuardedStatus(c)
      BY <1>0, <1>1, <1>9 DEF ControlGuard, Commit, TypeOK
    <2>4. Committed(s)
      <3>1. GuardedStatus(c) \in GraphStatuses \ {"none"}
        BY <2>2 DEF Unstable, GraphStatuses
      <3>2. (IF graph[c].status = "none" /\ Kind[c] = "resume"
             THEN CorrelationOf[c] ELSE graph[c].correlation) \in Correlations \cup {NoCorrelation}
        BY <1>0, <1>1, SlotsAssumption DEF TypeOK, GraphState
      <3> QED
        BY <1>9, <2>0, <3>1, <3>2 DEF ControlGuard, Committed
    <2> QED
      BY <1>3, <2>2, <2>3, <2>4
  <1>10. CASE WaitNodeResumes(s) \/ NodeContinues(s) \/ NodeDecides(s)
    <2>1. Committed(s)
      BY <1>10 DEF WaitNodeResumes, NodeContinues, NodeDecides, Committed, At, GraphPhases,
                   GraphStatuses
    <2>2. graph'[c].status \in Unstable
      BY <1>0, <1>1, <1>10
      DEF WaitNodeResumes, NodeContinues, NodeDecides, Commit, Unstable, TypeOK
    <2> QED
      BY <1>3, <2>1, <2>2
  <1> QED
    BY <1>4, <1>5, <1>6, <1>7, <1>8, <1>9, <1>10 DEF SlotStep, SlotFault, Quiet

\* The slots that run a Graph are on different Threads, so none disturbs
\* another.
LEMMA OthersExecuteFromLatest ==
    ASSUME WorkerInv, CheckpointInv, NEW s \in Slots, NEW q \in Slots \ {s},
           UNCHANGED graphVars \/ Committed(s), slot'[q] = slot[q],
           slot[q].pc \in GraphPhases
    PROVE  (ContinuesOwn(q) \/ BeginsOn(q))'
  <1>0. ContinuesOwn(q) \/ BeginsOn(q)
    BY DEF CheckpointInv, ExecutesFromLatest
  <1>1. CASE UNCHANGED graphVars
    BY <1>0, <1>1 DEF graphVars, ContinuesOwn, BeginsOn, Run, Cmd, NotStarted
  <1>2. CASE Committed(s)
    <2>1. slot[s].pc \in GraphPhases
      BY <1>2 DEF Committed
    <2>2. ThreadOf[Run(s)] # ThreadOf[Run(q)]
      BY <2>1 DEF WorkerInv, LockIsHeld, GraphPhases, LockedPhases
    <2>3. /\ Cmd(s) \in Commands /\ Run(s) \in Runs /\ Cmd(q) \in Commands /\ Run(q) \in Runs
          /\ Run(q) # Run(s) /\ Cmd(q) # Cmd(s)
      BY <2>1, <2>2, GraphPhaseFacts DEF Run
    <2>4. /\ latest' = [latest EXCEPT ![Run(s)] = Cmd(s)]
          /\ \A d \in Commands \ {Cmd(s)} : graph'[d] = graph[d]
      BY <1>2, CommittedTypes
    <2>5. latest'[Run(q)] = latest[Run(q)] /\ graph'[Cmd(q)] = graph[Cmd(q)]
      BY <2>3, <2>4 DEF WorkerInv, TypeOK
    <2>6. ~NotStarted(Run(q)) => graph'[latest[Run(q)]] = graph[latest[Run(q)]]
      <3> SUFFICES ASSUME ~NotStarted(Run(q))
                   PROVE graph'[latest[Run(q)]] = graph[latest[Run(q)]]
        OBVIOUS
      <3>1. latest[Run(q)] \in Commands /\ RunOf[latest[Run(q)]] = Run(q)
        BY <2>3 DEF CheckpointInv, LatestIsWritten, NotStarted, WorkerInv, TypeOK
      <3>2. latest[Run(q)] # Cmd(s)
        BY <2>3, <3>1 DEF Run
      <3> QED
        BY <2>4, <3>1, <3>2
    <2> QED
      BY <1>0, <2>5, <2>6 DEF ContinuesOwn, BeginsOn, Run, Cmd, NotStarted
  <1> QED
    BY <1>1, <1>2
\* A slot that is about to settle a start or a resume names its own stable
\* checkpoint.
LEMMA SlotSettlesAtOwn ==
    ASSUME WorkerInv, CheckpointInv, NEW s \in Slots, SlotStep(s) \/ SlotFault(s)
    PROVE  /\ slot'[s].pc = "observe" => Stable(graph'[Cmd(s)].status)
           /\ slot'[s].pc = "apply" /\ Kind[Cmd(s)] # "cancel"
                 => /\ Stable(graph'[Cmd(s)].status)
                    /\ slot'[s].checkpoint = <<Cmd(s), Classify(graph'[Cmd(s)].status)>>
  <1> DEFINE c == Cmd(s)
  <1> DEFINE Boundary == /\ Stable(graph'[c].status)
                         /\ slot'[s].checkpoint = <<c, Classify(graph'[c].status)>>
  <1>0. TypeOK /\ slot[s].pc # "idle"
    BY SlotStepShape DEF WorkerInv, Shape, Entered, Stayed, Left, Outside, LockedPhases
  <1>1. c \in Commands
    BY <1>0 DEF WorkerInv, SlotOwnsCommand, At
  <1>2. ASSUME slot'[s].pc = "observe" PROVE Stable(graph'[c].status)
    <2>1. GraphStops(s)
      BY <1>2, ObserveFollowsGraph
    <2>2. graph'[c].status \in {"waiting", "terminal"}
      BY <1>0, <1>1, <2>1 DEF GraphStops, Commit, TypeOK
    <2> QED
      BY <2>2 DEF Stable, Classify
  <1>3. ASSUME UNCHANGED graphVars, Stable(graph[c].status), ToApply(s, OwnCheckpoint(c))
        PROVE Boundary
    <2>1. graph[c].status # "none"
      BY <1>3 DEF Stable, Classify
    <2>2. slot'[s].checkpoint = OwnCheckpoint(c)
      BY <1>0, <1>1, <1>3, <2>1, OwnCheckpointType, ToApplyMoves
    <2> QED
      BY <1>3, <2>2 DEF graphVars, OwnCheckpoint, OwnDisposition
  <1>4. ASSUME slot'[s].pc = "apply", Kind[c] # "cancel" PROVE Boundary
    <2>1. CASE Quiet(s)
      BY <1>0, <1>4, <2>1, QuietPhases
    <2>2. CASE \/ DecideStart(s) \/ DecideResume(s) \/ ControlGuard(s) \/ WaitNodeResumes(s)
               \/ NodeContinues(s) \/ NodeDecides(s) \/ GraphStops(s)
      <3>1. slot'[s].pc \in {"guard", "node", "observe", "reject"}
        BY <1>0, <2>2
        DEF DecideStart, DecideResume, ControlGuard, WaitNodeResumes, NodeContinues, NodeDecides,
            GraphStops, Goto, ToReject, TypeOK, SlotState
      <3> QED
        BY <1>4, <3>1
    <2>3. CASE DecideCancel(s) \/ RejectUnstarted(s)
      BY <1>4, <2>3 DEF DecideCancel, RejectUnstarted, RejectUnstartedRunForCancel
    <2>4. CASE ReconcileOwn(s)
      <3>1. CASE Goto(s, "guard") \/ Raise(s)
        BY <1>0, <1>4, <3>1 DEF Raise, Goto, TypeOK, SlotState
      <3> QED
        BY <1>3, <2>4, <3>1 DEF ReconcileOwn
    <2>5. CASE ReconcileExhausted(s)
      <3>1. CASE ToReject(s, "reconciliation_required")
        BY <1>0, <1>4, <3>1 DEF ToReject, TypeOK, SlotState
      <3> QED
        BY <1>3, <2>5, <3>1 DEF ReconcileExhausted
    <2>6. CASE Observe(s)
      BY <1>3, <2>6 DEF Observe, CheckpointInv, SettlesAtOwn
    <2> QED
      BY <2>1, <2>2, <2>3, <2>4, <2>5, <2>6 DEF SlotStep, SlotFault, Quiet
  <1> QED
    BY <1>2, <1>4

\* No transaction but mark_command_applied applies a Command.
LEMMA OnlyMarkAppliedApplies ==
    ASSUME InboxTypeOK, NEW c \in Commands, NEW d \in Commands, NEW w \in Claimants,
           \/ RegisterRunWithStart(d) \/ EnqueueCommand(d) \/ ExpireClaim(d)
           \/ ClaimNextCommand(d, w) \/ RenewCommandClaim(d, w) \/ BeginCommandAttempt(d, w)
           \/ RejectUnstartedRunForCancel(d) \/ MarkCommandProductSynced(d)
           \/ \E code \in RejectionCodes : MarkCommandRejected(d, w, code)
           \/ ReleaseCommandClaim(d, w) \/ DeferWithoutAttempt(d, w),
           cmd'[c].status = "applied"
    PROVE  cmd[c].status = "applied"
  <1>0. cmd \in [Commands -> CommandRow] /\ cmd[c] \in CommandRow
    BY DEF InboxTypeOK
  <1>1. CASE c = d
    <2>1. CASE RejectUnstartedRunForCancel(d)
      BY <1>0, <2>1 DEF RejectUnstartedRunForCancel, CommandRow
    <2>2. CASE \/ RegisterRunWithStart(d) \/ EnqueueCommand(d) \/ ExpireClaim(d)
               \/ RenewCommandClaim(d, w) \/ BeginCommandAttempt(d, w)
               \/ MarkCommandProductSynced(d)
      BY <1>0, <1>1, <2>2
      DEF RegisterRunWithStart, EnqueueCommand, ExpireClaim, RenewCommandClaim,
          BeginCommandAttempt, MarkCommandProductSynced, CommandRow
    <2>3. CASE ClaimNextCommand(d, w) \/ ReleaseCommandClaim(d, w) \/ DeferWithoutAttempt(d, w)
      <3>1. cmd'[d].status \in {"claimed", "pending"}
        BY <1>0, <2>3 DEF ClaimNextCommand, ReleaseCommandClaim, DeferWithoutAttempt, CommandRow
      <3> QED
        BY <1>1, <3>1
    <2>4. CASE \E code \in RejectionCodes : MarkCommandRejected(d, w, code)
      BY <1>0, <1>1, <2>4 DEF MarkCommandRejected, CommandRow
    <2> QED
      BY <2>1, <2>2, <2>3, <2>4
  <1>2. CASE c # d
    <2>1. CASE RejectUnstartedRunForCancel(d)
      BY <1>0, <2>1 DEF RejectUnstartedRunForCancel, CommandRow
    <2>2. CASE ~RejectUnstartedRunForCancel(d)
      <3>1. cmd'[c] = cmd[c]
        BY <1>0, <1>2, <2>2
        DEF RegisterRunWithStart, EnqueueCommand, ExpireClaim, ClaimNextCommand,
            RenewCommandClaim, BeginCommandAttempt, MarkCommandProductSynced,
            MarkCommandRejected, ReleaseCommandClaim, DeferWithoutAttempt
      <3> QED
        BY <3>1
    <2> QED
      BY <2>1, <2>2
  <1> QED
    BY <1>1, <1>2
\* A Command becomes applied only by a slot in its apply phase, at the
\* checkpoint that slot chose.
LEMMA AppliedBySlot ==
    ASSUME WorkerInv, [Next]_vars, NEW c \in Commands,
           cmd'[c].status = "applied", cmd[c].status # "applied"
    PROVE  \E s \in Slots : /\ At(s, "apply") /\ Cmd(s) = c
                            /\ cmd'[c].checkpoint = slot[s].checkpoint
  <1> DEFINE Origin == \E s \in Slots : /\ At(s, "apply") /\ Cmd(s) = c
                                        /\ cmd'[c].checkpoint = slot[s].checkpoint
  <1>0. InboxTypeOK /\ cmd \in [Commands -> CommandRow]
    BY DEF WorkerInv, TypeOK, InboxTypeOK
  <1>1. ~UNCHANGED cmd
    OBVIOUS
  <1>2. ASSUME NEW s \in Slots, SlotStep(s) \/ SlotFault(s) \/ Heartbeat(s) PROVE Origin
    <2>0. Me(s) \in Claimants /\ (slot[s].pc # "idle" => Cmd(s) \in Commands)
      BY SlotsAssumption DEF WorkerInv, SlotOwnsCommand, At, Me
    <2>1. CASE MarkApplied(s)
      <3>1. slot[s].pc = "apply" /\ Cmd(s) \in Commands
        BY <2>0, <2>1 DEF MarkApplied, At
      <3>2. cmd' = [cmd EXCEPT ![Cmd(s)] =
                       [cmd[Cmd(s)] EXCEPT !.status = "applied", !.live = FALSE,
                                           !.checkpoint = slot[s].checkpoint,
                                           !.error = "product_sync_pending"]]
        BY <1>0, <1>1, <2>1, <3>1 DEF MarkApplied, MarkCommandApplied
      <3>3. Cmd(s) = c
        BY <1>0, <3>1, <3>2
      <3>4. cmd'[c].checkpoint = slot[s].checkpoint
        BY <1>0, <3>2, <3>3 DEF CommandRow
      <3> QED
        BY <3>1, <3>3, <3>4 DEF At
    <2>2. CASE \/ Heartbeat(s) \/ BeginAttempt(s) \/ RejectUnstarted(s) \/ MarkProductSynced(s)
               \/ ReleaseForRetry(s) \/ Defer(s)
      BY <1>0, <1>1, <2>0, <2>2, OnlyMarkAppliedApplies
      DEF Heartbeat, BeginAttempt, RejectUnstarted, MarkProductSynced, ReleaseForRetry, Defer,
          At, inboxVars
    <2>3. CASE MarkRejected(s) \/ RejectCancelled(s)
      <3>1. slot[s].pc \in {"reject", "cancelled"}
        BY <2>3 DEF MarkRejected, RejectCancelled, At
      <3>2. slot[s].code \in RejectionCodes /\ Cmd(s) \in Commands
        BY <2>0, <3>1 DEF WorkerInv, CodeIsChosen
      <3>3. MarkCommandRejected(Cmd(s), Me(s), slot[s].code)
        BY <1>1, <2>3 DEF MarkRejected, RejectCancelled, inboxVars
      <3> QED
        BY <1>0, <2>0, <3>2, <3>3, OnlyMarkAppliedApplies
    <2>4. CASE \/ AcquireThreadLock(s) \/ ThreadLockBusy(s) \/ BeginAttemptFails(s)
               \/ ReconcileOwn(s) \/ DecideCancel(s) \/ DecideStart(s) \/ DecideResume(s)
               \/ ReconcileExhausted(s) \/ ControlGuard(s) \/ InvocationCancelled(s)
               \/ WaitNodeResumes(s) \/ NodeContinues(s) \/ NodeDecides(s) \/ GraphStops(s)
               \/ Observe(s) \/ MarkAppliedFails(s) \/ MarkRejectedFails(s) \/ SyncProducts(s)
               \/ SyncProductsFails(s) \/ TransientError(s) \/ ToolOwnedElsewhere(s)
      BY <1>1, <2>4
      DEF AcquireThreadLock, ThreadLockBusy, BeginAttemptFails, ReconcileOwn, DecideCancel,
          DecideStart, DecideResume, ReconcileExhausted, ControlGuard, InvocationCancelled,
          WaitNodeResumes, NodeContinues, NodeDecides, GraphStops, Observe, MarkAppliedFails,
          MarkRejectedFails, SyncProducts, SyncProductsFails, TransientError,
          ToolOwnedElsewhere, inboxVars
    <2> QED
      BY <1>2, <2>1, <2>2, <2>3, <2>4 DEF SlotStep, SlotFault
  <1>3. ASSUME NEW d \in Commands, Intake(d) \/ OrphanExpires(d) \/ HeartbeatStalls(d) PROVE Origin
    <2>1. CASE Claimants = {}
      <3>1. cmd'[c].status \in {cmd[c].status, "pending"}
        BY <1>0, <1>3
        DEF Intake, OrphanExpires, HeartbeatStalls, RegisterRunWithStart, EnqueueCommand,
            ExpireClaim, CommandRow
      <3> QED
        BY <3>1
    <2>2. CASE Claimants # {}
      BY <1>0, <1>3, <2>2, OnlyMarkAppliedApplies DEF Intake, OrphanExpires, HeartbeatStalls
    <2> QED
      BY <2>1, <2>2
  <1>4. ASSUME NEW d \in Commands, NEW s \in Slots, Claim(s, d) PROVE Origin
    <2>1. Me(s) \in Claimants
      BY SlotsAssumption DEF Me
    <2> QED
      BY <1>0, <1>4, <2>1, OnlyMarkAppliedApplies DEF Claim
  <1>5. ASSUME NEW p \in Claimants, ReconcilerMarksSynced(p) PROVE Origin
    <2>1. reconciling[p] \in Commands
      BY <1>5 DEF ReconcilerMarksSynced, WorkerInv, TypeOK
    <2> QED
      BY <1>0, <1>5, <2>1, OnlyMarkAppliedApplies DEF ReconcilerMarksSynced
  <1>6. ASSUME NEW p \in Claimants,
               \/ Crash(p) \/ Restart(p)
               \/ \E d \in Commands : ReconcileProducts(p, d) \/ ReconcileProductsFails(p, d)
        PROVE Origin
    BY <1>1, <1>6
    DEF Crash, Restart, ReleaseRejectedStartLanes, ReconcileProducts, ReconcileProductsFails,
        inboxVars
  <1>7. CASE UNCHANGED vars
    BY <1>1, <1>7 DEF vars
  <1> QED
    BY <1>2, <1>3, <1>4, <1>5, <1>6, <1>7 DEF Next

\* Every applied start or resume names its own stable checkpoint, before and
\* after every step.
LEMMA AppliedStep ==
    ASSUME WorkerInv, CheckpointInv, [Next]_vars
    PROVE  AppliedAtOwnBoundary'
  <1> SUFFICES ASSUME NEW c \in Commands, cmd'[c].status = "applied", Kind[c] # "cancel"
               PROVE /\ Stable(graph'[c].status)
                     /\ cmd'[c].checkpoint = <<c, Classify(graph'[c].status)>>
    BY DEF AppliedAtOwnBoundary, OwnCheckpoint, OwnDisposition
  <1>1. ASSUME Stable(graph[c].status) PROVE graph'[c] = graph[c]
    BY <1>1, StableStep DEF CheckpointInv
  <1>2. CASE cmd[c].status = "applied"
    <2>1. Stable(graph[c].status) /\ cmd[c].checkpoint = OwnCheckpoint(c)
      BY <1>2 DEF CheckpointInv, AppliedAtOwnBoundary
    <2>2. cmd'[c].checkpoint = cmd[c].checkpoint
      BY <1>2, WorkerStepIsInboxStep, SettledRowKept DEF WorkerInv, TypeOK, Settled
    <2> QED
      BY <1>1, <2>1, <2>2 DEF OwnCheckpoint, OwnDisposition
  <1>3. CASE cmd[c].status # "applied"
    <2>1. PICK s \in Slots : /\ At(s, "apply") /\ Cmd(s) = c
                             /\ cmd'[c].checkpoint = slot[s].checkpoint
      BY <1>3, AppliedBySlot
    <2>2. Stable(graph[c].status) /\ slot[s].checkpoint = OwnCheckpoint(c)
      BY <2>1 DEF CheckpointInv, SettlesAtOwn
    <2> QED
      BY <1>1, <2>1, <2>2 DEF OwnCheckpoint, OwnDisposition
  <1> QED
    BY <1>2, <1>3
\* Nothing is written and nobody settles before the first step.
LEMMA CheckpointInvInit == Init => CheckpointInv
  <1> SUFFICES ASSUME Init PROVE CheckpointInv
    OBVIOUS
  <1>1. \A s \in Slots : slot[s].pc = "idle"
    BY DEF Init, IdleSlot
  <1>2. \A c \in Commands : graph[c].status = "none" /\ cmd[c].status = "absent"
    BY DEF Init, InboxInit, AbsentRow
  <1>3. \A r \in Runs : latest[r] = NoCommand
    BY DEF Init
  <1> QED
    BY <1>1, <1>2, <1>3
    DEF CheckpointInv, RunnableIsLatest, LatestIsWritten, ExecutesFromLatest, SettlesAtOwn,
        AppliedAtOwnBoundary, NotStarted, At, GraphPhases

\* Every step keeps the invariant.
LEMMA CheckpointInvStep == WorkerInv /\ CheckpointInv /\ [Next]_vars => CheckpointInv'
  <1> SUFFICES ASSUME WorkerInv, CheckpointInv, [Next]_vars PROVE CheckpointInv'
    OBVIOUS
  <1>1. RunnableIsLatest' /\ LatestIsWritten' /\ AppliedAtOwnBoundary'
    BY LatestStep, AppliedStep
  <1>2. ASSUME NEW q \in Slots, slot'[q] = slot[q]
        PROVE /\ slot'[q].pc = "observe" => Stable(graph'[slot'[q].cmd].status)
              /\ slot'[q].pc = "apply" /\ Kind[slot'[q].cmd] # "cancel"
                    => /\ Stable(graph'[slot'[q].cmd].status)
                       /\ slot'[q].checkpoint
                             = <<slot'[q].cmd, Classify(graph'[slot'[q].cmd].status)>>
    <2>1. ASSUME slot[q].pc \in {"observe", "apply"}, Stable(graph[Cmd(q)].status)
          PROVE graph'[Cmd(q)] = graph[Cmd(q)]
      <3>1. Cmd(q) \in Commands
        BY <2>1 DEF WorkerInv, SlotOwnsCommand, At
      <3> QED
        BY <2>1, <3>1, StableStep DEF CheckpointInv
    <2> QED
      BY <1>2, <2>1
      DEF CheckpointInv, SettlesAtOwn, At, Cmd, OwnCheckpoint, OwnDisposition
  <1>3. ASSUME NEW s \in Slots, SlotStep(s) \/ SlotFault(s)
        PROVE ExecutesFromLatest' /\ SettlesAtOwn'
    <2>1. Moved(s) /\ slot[s].pc # "idle"
      BY <1>3, SlotStepShape DEF Shape, Entered, Stayed, Left, Outside, LockedPhases
    <2>2. UNCHANGED graphVars \/ Committed(s)
      BY <1>3, SlotStepGraph
    <2>3. \A q \in Slots \ {s} : slot'[q] = slot[q]
      BY <2>1 DEF Moved
    <2>4. ExecutesFromLatest'
      <3> SUFFICES ASSUME NEW q \in Slots, slot'[q].pc \in GraphPhases
                   PROVE (ContinuesOwn(q) \/ BeginsOn(q))'
        BY DEF ExecutesFromLatest
      <3>1. CASE q = s
        BY <1>3, <3>1, SlotExecutesFromLatest
      <3>2. CASE q # s
        BY <2>2, <2>3, <3>2, OthersExecuteFromLatest
      <3> QED
        BY <3>1, <3>2
    <2>5. SettlesAtOwn'
      <3> SUFFICES ASSUME NEW q \in Slots
                   PROVE /\ slot'[q].pc = "observe" => Stable(graph'[slot'[q].cmd].status)
                         /\ slot'[q].pc = "apply" /\ Kind[slot'[q].cmd] # "cancel"
                               => /\ Stable(graph'[slot'[q].cmd].status)
                                  /\ slot'[q].checkpoint
                                        = <<slot'[q].cmd, Classify(graph'[slot'[q].cmd].status)>>
        BY DEF SettlesAtOwn, At, Cmd, OwnCheckpoint, OwnDisposition
      <3>1. CASE q = s
        <4>1. slot'[s].pc \in {"observe", "apply"} => slot'[s].cmd = Cmd(s)
          BY <2>1 DEF Moved, Cmd
        <4> QED
          BY <1>3, <3>1, <4>1, SlotSettlesAtOwn
      <3>2. CASE q # s
        BY <1>2, <2>3, <3>2
      <3> QED
        BY <3>1, <3>2
    <2> QED
      BY <2>4, <2>5
  <1>4. ASSUME UNCHANGED graphVars,
               \A q \in Slots : slot'[q] = slot[q] \/ slot'[q].pc \in {"idle", "claimed"}
        PROVE ExecutesFromLatest' /\ SettlesAtOwn'
    <2>1. ExecutesFromLatest'
      <3> SUFFICES ASSUME NEW q \in Slots, slot'[q].pc \in GraphPhases
                   PROVE (ContinuesOwn(q) \/ BeginsOn(q))'
        BY DEF ExecutesFromLatest
      <3>1. slot'[q] = slot[q]
        BY <1>4 DEF GraphPhases
      <3> QED
        BY <1>4, <3>1
        DEF CheckpointInv, ExecutesFromLatest, graphVars, ContinuesOwn, BeginsOn, Run, Cmd, NotStarted
    <2>2. SettlesAtOwn'
      BY <1>2, <1>4 DEF SettlesAtOwn, At, Cmd, OwnCheckpoint, OwnDisposition
    <2> QED
      BY <2>1, <2>2
  <1>5. ASSUME NEW s \in Slots, NEW c \in Commands, Claim(s, c)
        PROVE ExecutesFromLatest' /\ SettlesAtOwn'
    <2>1. \A q \in Slots : slot'[q] = slot[q] \/ slot'[q].pc \in {"idle", "claimed"}
      BY <1>5, ClaimKeepsInv
    <2> QED
      BY <1>4, <1>5, <2>1 DEF Claim
  <1>6. ASSUME NEW p \in Claimants, Crash(p) PROVE ExecutesFromLatest' /\ SettlesAtOwn'
    <2>1. \A q \in Slots : slot'[q] = slot[q] \/ slot'[q].pc \in {"idle", "claimed"}
      BY <1>6 DEF Crash, IdleSlot
    <2> QED
      BY <1>4, <1>6, <2>1 DEF Crash
  <1>7. ASSUME Background PROVE ExecutesFromLatest' /\ SettlesAtOwn'
    BY <1>4, <1>7, BackgroundStep
  <1>8. ASSUME UNCHANGED vars PROVE ExecutesFromLatest' /\ SettlesAtOwn'
    BY <1>4, <1>8 DEF vars, graphVars
  <1>9. ExecutesFromLatest' /\ SettlesAtOwn'
    BY <1>3, <1>5, <1>6, <1>7, <1>8, NextCases
  <1> QED
    BY <1>1, <1>9 DEF CheckpointInv

\* The invariant holds of every behaviour of the worker.
THEOREM CheckpointInvariant == Spec => [](WorkerInv /\ CheckpointInv)
  <1>1. Init => CheckpointInv
    BY CheckpointInvInit
  <1>2. WorkerInv /\ CheckpointInv /\ [Next]_vars => CheckpointInv'
    BY CheckpointInvStep
  <1> QED
    BY <1>1, <1>2, WorkerInvariant, PTL DEF Spec

\* A Command is applied only at a stable checkpoint of its own, for every
\* number of workers, retries and faults.
THEOREM WorkerAppliesAtOwnBoundary == Spec => []AppliedAtOwnBoundary
  <1>1. CheckpointInv => AppliedAtOwnBoundary
    BY DEF CheckpointInv
  <1> QED
    BY <1>1, CheckpointInvariant, PTL

\* A Command that has reached a wait or the end is never executed again.
THEOREM WorkerKeepsStableCheckpoints == Spec => StableCheckpointIsFinal
  <1>1. WorkerInv /\ CheckpointInv /\ [Next]_vars
           => [\A c \in Commands : Stable(graph[c].status) => graph'[c] = graph[c]]_vars
    BY StableStep DEF CheckpointInv
  <1> QED
    BY <1>1, CheckpointInvariant, PTL DEF Spec, StableCheckpointIsFinal

\* A Run that has ended is never written to again.
THEOREM WorkerLeavesFinishedRuns == Spec => FinishedRunNeverAdvances
  <1>1. WorkerInv /\ CheckpointInv /\ [Next]_vars
           => [\A r \in Runs : ~NotStarted(r) /\ LatestDisposition(r) = "terminal"
                                  => latest'[r] = latest[r]]_vars
    BY FinishedStep DEF CheckpointInv
  <1> QED
    BY <1>1, CheckpointInvariant, PTL DEF Spec, FinishedRunNeverAdvances
=============================================================================

---------------------------- MODULE CommandWorker ----------------------------
(***************************************************************************)
(* RuntimeCommandWorker (services/agent_runtime/command_worker.py) with    *)
(* what it drives: the Thread advisory lock, the LangGraph driver and its  *)
(* checkpoints, the post-checkpoint products and the product reconciler.   *)
(* Worker processes run several slots each; a slot repeats run_once.       *)
(***************************************************************************)
EXTENDS CommandInbox

CONSTANTS
    Slots,          \* concurrent run_once loops over all worker processes
    ProcessOf,      \* the process (claimant) of a slot
    NoSlot,
    Threads,        \* runtime_thread_id values; several Runs may share one
    ThreadOf,
    NoCommand,
    Correlations,   \* correlation ids of waiting requests
    NoCorrelation,
    CorrelationOf,  \* the correlation a resume Command carries
    ChatRuns,       \* Runs whose source_type is "chat"
    FaultKinds,     \* which faults the environment may inject
    MaxFaults       \* bound on the faults of a behaviour

ASSUME SlotsAssumption ==
    /\ ProcessOf \in [Slots -> Claimants]
    /\ NoSlot \notin Slots
    /\ ThreadOf \in [Runs -> Threads]
    /\ NoCommand \notin Commands
    /\ CorrelationOf \in [Commands -> Correlations \cup {NoCorrelation}]
    /\ NoCorrelation \notin Correlations
    /\ ChatRuns \subseteq Runs
    /\ FaultKinds \subseteq {"crash", "stall", "error", "busy_tool", "products"}
    /\ MaxFaults \in Nat

\* A checkpoint id names the Command that wrote it and what it was classified as.
Dispositions == {"runnable", "inconsistent", "waiting", "terminal"}

ASSUME CheckpointsAssumption == Checkpoints = Commands \X Dispositions

VARIABLES
    slot,       \* the local state of every run_once
    lock,       \* the holder of each Thread's advisory lock
    graph,      \* what the latest checkpoint of each Command holds
    latest,     \* the Command that wrote the latest checkpoint of each Run
    events,     \* terminal lifecycle events recorded for each Run
    up,         \* which worker processes run
    reconciling,\* the Command whose products a process's reconciler has replayed
    faults      \* faults so far: crashes, stalls and errors of the environment

procVars == <<up, reconciling>>
workerVars == <<slot, lock, procVars>>
graphVars == <<graph, latest>>
vars == <<cmd, laneHeld, slot, lock, graph, latest, events, up, reconciling, faults>>

(***************************************************************************)
(* The checkpoint of an invocation.  A Graph node that decides to wait or  *)
(* to end commits that status before the wait node interrupts and before   *)
(* the terminal node reaches END: "to_wait" and "to_end" are the           *)
(* checkpoints in between.                                                 *)
(***************************************************************************)
GraphStatuses == {"none", "running", "to_wait", "to_end", "waiting", "terminal"}

GraphState == [status : GraphStatuses, correlation : Correlations \cup {NoCorrelation}]

\* classify_checkpoint: values, next, tasks and interrupts must agree.
Classify(status) ==
    CASE status = "none" -> "not_started"
      [] status = "running" -> "runnable"
      [] status \in {"to_wait", "to_end"} -> "inconsistent"
      [] status = "waiting" -> "waiting"
      [] status = "terminal" -> "terminal"

Stable(status) == Classify(status) \in {"waiting", "terminal"}

OwnDisposition(c) == Classify(graph[c].status)
OwnCheckpoint(c) == <<c, OwnDisposition(c)>>

NotStarted(r) == latest[r] = NoCommand
LatestDisposition(r) == OwnDisposition(latest[r])

\* Phases of run_once, and those in which the Thread lock is held.
LockedPhases ==
    {"begin", "read", "guard", "node", "observe", "exhausted",
     "unstart", "apply", "sync", "mark", "reject"}
Phases == LockedPhases \cup {"idle", "claimed", "cancelled", "retry", "defer"}
GraphPhases == {"guard", "node"}

SlotState ==
    [pc         : Phases,
     cmd        : Commands \cup {NoCommand},
     exhausted  : BOOLEAN,
     resuming   : BOOLEAN,
     checkpoint : Checkpoints \cup {NoCheckpoint},
     code       : RejectionCodes \cup {"none"}]

IdleSlot ==
    [pc |-> "idle", cmd |-> NoCommand, exhausted |-> FALSE, resuming |-> FALSE,
     checkpoint |-> NoCheckpoint, code |-> "none"]

\* run_completed also stands for a Graph that ended with status failed.
TerminalEvents == {"run_completed", "run_failed", "run_cancelled"}

\* The tables, the local state of every slot, the locks and the checkpoints keep
\* their types; attempts never pass MaxAttempts, whatever claims are lost.
TypeOK ==
    /\ InboxTypeOK
    /\ slot \in [Slots -> SlotState]
    /\ lock \in [Threads -> Slots \cup {NoSlot}]
    /\ graph \in [Commands -> GraphState]
    /\ latest \in [Runs -> Commands \cup {NoCommand}]
    /\ events \in [Runs -> SUBSET TerminalEvents]
    /\ up \in [Claimants -> BOOLEAN]
    /\ reconciling \in [Claimants -> Commands \cup {NoCommand}]
    /\ faults \in 0..MaxFaults

Init ==
    /\ InboxInit
    /\ slot = [s \in Slots |-> IdleSlot]
    /\ lock = [t \in Threads |-> NoSlot]
    /\ graph = [c \in Commands |-> [status |-> "none", correlation |-> NoCorrelation]]
    /\ latest = [r \in Runs |-> NoCommand]
    /\ events = [r \in Runs |-> {}]
    /\ up = [p \in Claimants |-> TRUE]
    /\ reconciling = [p \in Claimants |-> NoCommand]
    /\ faults = 0

Cmd(s) == slot[s].cmd
Run(s) == RunOf[Cmd(s)]
Me(s) == ProcessOf[s]
At(s, phase) == slot[s].pc = phase

Goto(s, phase) == slot' = [slot EXCEPT ![s].pc = phase]

\* Leaving the callback of run_with_thread_lock unlocks the Thread.
Unlock(s) == lock' = [lock EXCEPT ![ThreadOf[Run(s)]] = NoSlot]

\* run_once returns.
Finish(s) == slot' = [slot EXCEPT ![s] = IdleSlot]

Fault(kind) == kind \in FaultKinds /\ faults < MaxFaults /\ faults' = faults + 1

-----------------------------------------------------------------------------
(***************************************************************************)
(* Claiming, the heartbeat and the Thread lock.                            *)
(***************************************************************************)
Intake(c) ==
    /\ RegisterRunWithStart(c) \/ EnqueueCommand(c)
    /\ UNCHANGED <<workerVars, graphVars, events, faults>>

Claim(s, c) ==
    /\ At(s, "idle")
    /\ up[Me(s)]
    /\ ClaimNextCommand(c, Me(s))
    /\ slot' = [slot EXCEPT ![s] = [IdleSlot EXCEPT !.pc = "claimed", !.cmd = c,
                                        !.exhausted = cmd[c].attempts >= MaxAttempts]]
    /\ UNCHANGED <<lock, graphVars, events, procVars, faults>>

\* The heartbeat task of a slot; it renews even a lease that has run out.
Heartbeat(s) ==
    /\ ~At(s, "idle")
    /\ ~cmd[Cmd(s)].live
    /\ RenewCommandClaim(Cmd(s), Me(s))
    /\ UNCHANGED <<workerVars, graphVars, events, faults>>

\* Some slot of the claiming process still works on the Command.
Attended(c) == \E s \in Slots : Cmd(s) = c /\ Me(s) = cmd[c].claimant

\* The lease of a claim nobody renews runs out.
OrphanExpires(c) ==
    /\ ~Attended(c)
    /\ ExpireClaim(c)
    /\ UNCHANGED <<workerVars, graphVars, events, faults>>

\* A heartbeat fails or comes too late while its slot goes on.
HeartbeatStalls(c) ==
    /\ Attended(c)
    /\ ExpireClaim(c)
    /\ Fault("stall")
    /\ UNCHANGED <<workerVars, graphVars, events>>

\* Mutant: the advisory lock is taken without a conflict check.
AcquireThreadLockAnyway(s) ==
    /\ At(s, "claimed")
    /\ lock' = [lock EXCEPT ![ThreadOf[Run(s)]] = s]
    /\ Goto(s, IF slot[s].exhausted THEN "exhausted" ELSE "begin")
    /\ UNCHANGED <<inboxVars, graphVars, events, procVars, faults>>

\* run_with_thread_lock: pg_try_advisory_lock, once per claim.
AcquireThreadLock(s) ==
    /\ At(s, "claimed")
    /\ lock[ThreadOf[Run(s)]] = NoSlot
    /\ lock' = [lock EXCEPT ![ThreadOf[Run(s)]] = s]
    /\ Goto(s, IF slot[s].exhausted THEN "exhausted" ELSE "begin")
    /\ UNCHANGED <<inboxVars, graphVars, events, procVars, faults>>

ThreadLockBusy(s) ==
    /\ At(s, "claimed")
    /\ lock[ThreadOf[Run(s)]] # NoSlot
    /\ Goto(s, "retry")
    /\ UNCHANGED <<inboxVars, lock, graphVars, events, procVars, faults>>

-----------------------------------------------------------------------------
(***************************************************************************)
(* _process_locked up to the point where it settles or runs the Graph.     *)
(***************************************************************************)

\* An exception leaves the callback: unlock, then release the claim.
Raise(s) ==
    /\ Unlock(s)
    /\ Goto(s, "retry")

BeginAttempt(s) ==
    /\ At(s, "begin")
    /\ BeginCommandAttempt(Cmd(s), Me(s))
    /\ Goto(s, "read")
    /\ UNCHANGED <<lock, graphVars, events, procVars, faults>>

\* command_claim_lost, or another slot of this process used the last attempt.
BeginAttemptFails(s) ==
    /\ At(s, "begin")
    /\ ~RequireClaimant(Cmd(s), Me(s)) \/ cmd[Cmd(s)].attempts >= MaxAttempts
    /\ Raise(s)
    /\ UNCHANGED <<inboxVars, graphVars, events, procVars, faults>>

ToApply(s, ckpt) == slot' = [slot EXCEPT ![s].pc = "apply", ![s].checkpoint = ckpt]
ToReject(s, code) == slot' = [slot EXCEPT ![s].pc = "reject", ![s].code = code]

\* Mutant: a redelivered Command submits its input again, stable or not.
ReconcileOwnRunsAgain(s) ==
    /\ At(s, "read")
    /\ graph[Cmd(s)].status # "none"
    /\ OwnDisposition(Cmd(s)) # "inconsistent"
    /\ slot' = [slot EXCEPT ![s].pc = "node", ![s].resuming = TRUE]
    /\ UNCHANGED <<inboxVars, lock, graphVars, events, procVars, faults>>

\* The Command already has a checkpoint: settle it, or go on from it.
ReconcileOwn(s) ==
    LET c == Cmd(s) IN
    /\ At(s, "read")
    /\ graph[c].status # "none"
    /\ \/ /\ Stable(graph[c].status)
          /\ ToApply(s, OwnCheckpoint(c))
          /\ UNCHANGED lock
       \/ /\ OwnDisposition(c) = "inconsistent"
          /\ Raise(s)
       \/ /\ OwnDisposition(c) = "runnable"
          /\ Goto(s, "guard")
          /\ UNCHANGED lock
    /\ UNCHANGED <<inboxVars, graphVars, events, procVars, faults>>

\* A cancel keeps the last committed checkpoint as its boundary.
DecideCancel(s) ==
    LET r == Run(s) IN
    /\ At(s, "read")
    /\ Kind[Cmd(s)] = "cancel"
    /\ \/ /\ NotStarted(r)
          /\ Goto(s, "unstart")
          /\ UNCHANGED lock
       \/ /\ ~NotStarted(r)
          /\ LatestDisposition(r) = "terminal"
          /\ ToReject(s, "already_terminal")
          /\ UNCHANGED lock
       \/ /\ ~NotStarted(r)
          /\ LatestDisposition(r) = "inconsistent"
          /\ Raise(s)
       \/ /\ ~NotStarted(r)
          /\ LatestDisposition(r) \in {"runnable", "waiting"}
          /\ ToApply(s, OwnCheckpoint(latest[r]))
          /\ UNCHANGED lock
    /\ UNCHANGED <<inboxVars, graphVars, events, procVars, faults>>

DecideStart(s) ==
    LET c == Cmd(s) IN
    /\ At(s, "read")
    /\ Kind[c] = "start"
    /\ graph[c].status = "none"
    /\ NotStarted(RunOf[c])
    /\ Goto(s, "guard")
    /\ UNCHANGED <<inboxVars, lock, graphVars, events, procVars, faults>>

\* Mutant: a resume is applied to whatever the Thread's latest state is.
ResumeAcceptedAlways(c) == TRUE

\* _resume_value reads lifecycle.status, so a checkpoint on its way to the
\* wait node accepts a resume as well; control_guard then comes first.
ResumeAccepted(c) ==
    LET g == graph[latest[RunOf[c]]] IN
    /\ g.status \in {"waiting", "to_wait"}
    /\ g.correlation = CorrelationOf[c]

DecideResume(s) ==
    LET c == Cmd(s)
        r == Run(s) IN
    /\ At(s, "read")
    /\ Kind[c] = "resume"
    /\ graph[c].status = "none"
    /\ \/ NotStarted(r) /\ ToReject(s, "thread_not_started")
       \/ /\ ~NotStarted(r)
          /\ LatestDisposition(r) = "terminal"
          /\ ToReject(s, "already_terminal")
       \/ /\ ~NotStarted(r)
          /\ LatestDisposition(r) # "terminal"
          /\ ~ResumeAccepted(c)
          /\ ToReject(s, "resume_mismatch")
       \/ /\ ~NotStarted(r)
          /\ ResumeAccepted(c)
          /\ slot' = [slot EXCEPT ![s].resuming = TRUE,
                          ![s].pc = IF graph[latest[r]].status = "waiting"
                                    THEN "node" ELSE "guard"]
    /\ UNCHANGED <<inboxVars, lock, graphVars, events, procVars, faults>>

\* Mutant: an exhausted Command is applied at whatever checkpoint it reached.
ReconcileExhaustedAtAny(s) ==
    LET c == Cmd(s) IN
    /\ At(s, "exhausted")
    /\ IF Kind[c] # "cancel" /\ graph[c].status # "none"
       THEN ToApply(s, OwnCheckpoint(c))
       ELSE ToReject(s, "reconciliation_required")
    /\ UNCHANGED <<inboxVars, lock, graphVars, events, procVars, faults>>

\* _process_exhausted_locked: no further attempt, only reconciliation.
ReconcileExhausted(s) ==
    LET c == Cmd(s) IN
    /\ At(s, "exhausted")
    /\ IF Kind[c] # "cancel" /\ Stable(graph[c].status)
       THEN ToApply(s, OwnCheckpoint(c))
       ELSE ToReject(s, "reconciliation_required")
    /\ UNCHANGED <<inboxVars, lock, graphVars, events, procVars, faults>>

-----------------------------------------------------------------------------
(***************************************************************************)
(* The Graph: control_guard before every node, one checkpoint per node.    *)
(***************************************************************************)

\* DatabaseRuntimeCancelSource.get_cancel
CancelRequested(r) ==
    \E c \in Commands : RunOf[c] = r /\ Kind[c] = "cancel" /\ Unfinished(c)

Commit(c, status, k) ==
    /\ graph' = [graph EXCEPT ![c] = [status |-> status, correlation |-> k]]
    /\ latest' = [latest EXCEPT ![RunOf[c]] = c]

\* What control_guard leaves in the checkpoint: the state it found, under the
\* identity of this Command.
GuardedStatus(c) ==
    IF graph[c].status # "none" THEN graph[c].status
    ELSE IF Kind[c] = "start" THEN "running" ELSE "to_wait"

ControlGuard(s) ==
    LET c == Cmd(s) IN
    /\ At(s, "guard")
    /\ graph[c].status = "to_end" \/ ~CancelRequested(RunOf[c])
    /\ Commit(c, GuardedStatus(c),
              IF graph[c].status = "none" /\ Kind[c] = "resume"
              THEN CorrelationOf[c] ELSE graph[c].correlation)
    /\ Goto(s, "node")
    /\ UNCHANGED <<inboxVars, lock, events, procVars, faults>>

\* RuntimeInvocationCancelled, from control_guard or from the tool node: no
\* checkpoint is written and the lock is given up before the Command settles.
InvocationCancelled(s) ==
    LET c == Cmd(s) IN
    /\ \/ At(s, "guard") /\ graph[c].status # "to_end"
       \/ At(s, "node") /\ graph[c].status = "running"
    /\ CancelRequested(RunOf[c])
    /\ Unlock(s)
    /\ slot' = [slot EXCEPT ![s].pc = "cancelled", ![s].code = "cancelled_before_apply"]
    /\ UNCHANGED <<inboxVars, graphVars, events, procVars, faults>>

\* The wait node takes the resume value and hands back to control_guard.
WaitNodeResumes(s) ==
    /\ At(s, "node")
    /\ slot[s].resuming
    /\ Commit(Cmd(s), "running", NoCorrelation)
    /\ slot' = [slot EXCEPT ![s].pc = "guard", ![s].resuming = FALSE]
    /\ UNCHANGED <<inboxVars, lock, events, procVars, faults>>

\* compact, model, tool or verify: the invocation goes on ...
NodeContinues(s) ==
    LET c == Cmd(s) IN
    /\ At(s, "node")
    /\ graph[c].status = "running"
    /\ Commit(c, "running", NoCorrelation)
    /\ Goto(s, "guard")
    /\ UNCHANGED <<inboxVars, lock, events, procVars, faults>>

\* ... or the node decides to wait for an answer, or to end the Run.
NodeDecides(s) ==
    LET c == Cmd(s) IN
    /\ At(s, "node")
    /\ graph[c].status = "running"
    /\ \/ \E k \in Correlations : Commit(c, "to_wait", k)
       \/ Commit(c, "to_end", NoCorrelation)
    /\ Goto(s, "guard")
    /\ UNCHANGED <<inboxVars, lock, events, procVars, faults>>

\* interrupt() in the wait node, or END after the terminal node: ainvoke returns.
GraphStops(s) ==
    LET c == Cmd(s) IN
    /\ At(s, "node")
    /\ ~slot[s].resuming
    /\ \/ graph[c].status = "to_wait" /\ Commit(c, "waiting", graph[c].correlation)
       \/ graph[c].status = "to_end" /\ Commit(c, "terminal", NoCorrelation)
    /\ Goto(s, "observe")
    /\ UNCHANGED <<inboxVars, lock, events, procVars, faults>>

\* The checkpoint of the Command, read back after execute.
Observe(s) ==
    /\ At(s, "observe")
    /\ ToApply(s, OwnCheckpoint(Cmd(s)))
    /\ UNCHANGED <<inboxVars, lock, graphVars, events, procVars, faults>>

-----------------------------------------------------------------------------
(***************************************************************************)
(* Settlement.                                                             *)
(***************************************************************************)
RejectUnstarted(s) ==
    /\ At(s, "unstart")
    /\ RejectUnstartedRunForCancel(Cmd(s))
    /\ ToApply(s, NoCheckpoint)
    /\ UNCHANGED <<lock, graphVars, events, procVars, faults>>

MarkApplied(s) ==
    /\ At(s, "apply")
    /\ MarkCommandApplied(Cmd(s), Me(s), slot[s].checkpoint)
    /\ Goto(s, "sync")
    /\ UNCHANGED <<lock, graphVars, events, procVars, faults>>

MarkAppliedFails(s) ==
    LET c == Cmd(s) IN
    /\ At(s, "apply")
    /\ ~RequireClaimant(c, Me(s)) /\ ~AlreadyApplied(c, Me(s), slot[s].checkpoint)
    /\ Raise(s)
    /\ UNCHANGED <<inboxVars, graphVars, events, procVars, faults>>

\* handle_rejection: a rejected chat start is projected as a failed Run.
RejectionEvents(c, code) ==
    IF Kind[c] = "start" /\ RunOf[c] \in ChatRuns
       /\ code \notin {"already_terminal", "cancelled_before_apply"}
    THEN [events EXCEPT ![RunOf[c]] = @ \cup {"run_failed"}]
    ELSE events

MarkRejected(s) ==
    /\ At(s, "reject")
    /\ MarkCommandRejected(Cmd(s), Me(s), slot[s].code)
    /\ events' = RejectionEvents(Cmd(s), slot[s].code)
    /\ Unlock(s)
    /\ Finish(s)
    /\ UNCHANGED <<graphVars, procVars, faults>>

MarkRejectedFails(s) ==
    LET c == Cmd(s) IN
    /\ At(s, "reject")
    /\ ~RequireClaimant(c, Me(s)) /\ ~AlreadyRejected(c, Me(s), slot[s].code)
    /\ Raise(s)
    /\ UNCHANGED <<inboxVars, graphVars, events, procVars, faults>>

\* Settling a cancelled invocation; a lost claim ends run_once.
RejectCancelled(s) ==
    LET c == Cmd(s) IN
    /\ At(s, "cancelled")
    /\ \/ MarkCommandRejected(c, Me(s), slot[s].code)
       \/ /\ ~RequireClaimant(c, Me(s)) /\ ~AlreadyRejected(c, Me(s), slot[s].code)
          /\ UNCHANGED inboxVars
    /\ Finish(s)
    /\ UNCHANGED <<lock, graphVars, events, procVars, faults>>

\* _release_for_retry; a failed release is logged and left to the lease.
ReleaseForRetry(s) ==
    /\ At(s, "retry")
    /\ IF RequireClaimant(Cmd(s), Me(s))
       THEN ReleaseCommandClaim(Cmd(s), Me(s))
       ELSE UNCHANGED inboxVars
    /\ Finish(s)
    /\ UNCHANGED <<lock, graphVars, events, procVars, faults>>

\* ToolExecutionReconciliationPending with an active owner elsewhere.
Defer(s) ==
    LET c == Cmd(s) IN
    /\ At(s, "defer")
    /\ IF RequireClaimant(c, Me(s)) /\ cmd[c].attempts > 0
       THEN DeferWithoutAttempt(c, Me(s))
       ELSE UNCHANGED inboxVars
    /\ Finish(s)
    /\ UNCHANGED <<lock, graphVars, events, procVars, faults>>

-----------------------------------------------------------------------------
(***************************************************************************)
(* Products.  RuntimeCheckpointSideEffects.handle records the lifecycle    *)
(* events in one transaction and releases the lane in another; without a   *)
(* checkpoint both are one transaction.                                    *)
(***************************************************************************)
\* Mutant: the lane is released whatever the checkpoint says.
EndsRunAlways(c) == TRUE

\* lifecycle.status of the applied checkpoint is terminal, or the Command is a cancel.
EndsRun(c) ==
    \/ Kind[c] = "cancel"
    \/ cmd[c].checkpoint = <<c, "terminal">>

\* A cancel that found no checkpoint adds no second terminal outcome.
OutcomeEvents(c) ==
    LET r == RunOf[c] IN
    CASE Kind[c] # "cancel" -> events[r] \cup {"run_completed"}
      [] Kind[c] = "cancel" /\ cmd[c].checkpoint = NoCheckpoint /\ events[r] # {} -> events[r]
      [] OTHER -> events[r] \cup {"run_cancelled"}

RecordEvents(c, done) ==
    events' = IF done /\ EndsRun(c)
              THEN [events EXCEPT ![RunOf[c]] = OutcomeEvents(c)]
              ELSE events

\* Mutant: the completion handler forgets the lane.
FreedLanesNone(c, done) == laneHeld

\* SchedulingLaneCompletionHandler.
FreedLanes(c, done) ==
    IF done /\ EndsRun(c) THEN [laneHeld EXCEPT ![RunOf[c]] = FALSE] ELSE laneHeld

\* Every handler runs whatever happens to the others.
PartialProducts(c) ==
    \E recorded, freed \in BOOLEAN :
        /\ cmd[c].checkpoint = NoCheckpoint => recorded = freed
        /\ RecordEvents(c, recorded)
        /\ laneHeld' = FreedLanes(c, freed)

SyncProducts(s) ==
    /\ At(s, "sync")
    /\ RecordEvents(Cmd(s), TRUE)
    /\ laneHeld' = FreedLanes(Cmd(s), TRUE)
    /\ Goto(s, "mark")
    /\ UNCHANGED <<cmd, lock, graphVars, procVars, faults>>

\* Some product failed; the others are kept and the Command stays marked.
SyncProductsFails(s) ==
    /\ At(s, "sync")
    /\ Fault("products")
    /\ PartialProducts(Cmd(s))
    /\ Unlock(s)
    /\ Finish(s)
    /\ UNCHANGED <<cmd, graphVars, procVars>>

MarkProductSynced(s) ==
    /\ At(s, "mark")
    /\ MarkCommandProductSynced(Cmd(s))
    /\ Unlock(s)
    /\ Finish(s)
    /\ UNCHANGED <<graphVars, events, procVars, faults>>

\* Mutant: the reconciler looks for starts and resumes only.
AwaitsProductsOfInvocations(c) ==
    cmd[c].status = "applied" /\ cmd[c].error = "product_sync_pending" /\ Kind[c] # "cancel"

\* The candidates of RuntimeProductReconciler._next.
AwaitsProducts(c) == cmd[c].status = "applied" /\ cmd[c].error = "product_sync_pending"

\* RuntimeProductReconciler.run_once, one per process: the products first ...
ReconcileProducts(p, c) ==
    /\ up[p]
    /\ reconciling[p] = NoCommand
    /\ AwaitsProducts(c)
    /\ RecordEvents(c, TRUE)
    /\ laneHeld' = FreedLanes(c, TRUE)
    /\ reconciling' = [reconciling EXCEPT ![p] = c]
    /\ UNCHANGED <<cmd, slot, lock, up, graphVars, faults>>

\* ... then the marker.
ReconcilerMarksSynced(p) ==
    /\ reconciling[p] # NoCommand
    /\ MarkCommandProductSynced(reconciling[p])
    /\ reconciling' = [reconciling EXCEPT ![p] = NoCommand]
    /\ UNCHANGED <<slot, lock, up, graphVars, events, faults>>

ReconcileProductsFails(p, c) ==
    /\ up[p]
    /\ reconciling[p] = NoCommand
    /\ AwaitsProducts(c)
    /\ Fault("products")
    /\ PartialProducts(c)
    /\ UNCHANGED <<cmd, workerVars, graphVars>>

-----------------------------------------------------------------------------
(***************************************************************************)
(* Faults.                                                                 *)
(***************************************************************************)

\* Any exception under the lock: a database error, a model or tool failure
\* that is not part of the Graph state.
TransientError(s) ==
    /\ slot[s].pc \in LockedPhases \ {"sync", "mark"}
    /\ Fault("error")
    /\ Raise(s)
    /\ UNCHANGED <<inboxVars, graphVars, events, procVars>>

ToolOwnedElsewhere(s) ==
    /\ At(s, "node")
    /\ graph[Cmd(s)].status = "running"
    /\ Fault("busy_tool")
    /\ Unlock(s)
    /\ Goto(s, "defer")
    /\ UNCHANGED <<inboxVars, graphVars, events, procVars>>

\* A process dies: its slots are lost, its connections and locks with them.
Crash(p) ==
    /\ up[p]
    /\ Fault("crash")
    /\ up' = [up EXCEPT ![p] = FALSE]
    /\ reconciling' = [reconciling EXCEPT ![p] = NoCommand]
    /\ slot' = [s \in Slots |-> IF Me(s) = p THEN IdleSlot ELSE slot[s]]
    /\ lock' = [t \in Threads |->
                   IF lock[t] # NoSlot /\ ProcessOf[lock[t]] = p THEN NoSlot ELSE lock[t]]
    /\ UNCHANGED <<inboxVars, graphVars, events>>

\* Mutant: a restarted process takes its former claims back at once.
RestartReleasesClaims(p) ==
    /\ ~up[p]
    /\ up' = [up EXCEPT ![p] = TRUE]
    /\ cmd' = [c \in Commands |-> IF RequireClaimant(c, p)
                                 THEN [cmd[c] EXCEPT !.status = "pending", !.live = FALSE]
                                 ELSE cmd[c]]
    /\ UNCHANGED <<laneHeld, slot, lock, reconciling, graphVars, events, faults>>

\* Startup of a worker process, with its one-time repair of lanes.
Restart(p) ==
    /\ ~up[p]
    /\ up' = [up EXCEPT ![p] = TRUE]
    /\ ReleaseRejectedStartLanes
    /\ UNCHANGED <<slot, lock, reconciling, graphVars, events, faults>>

-----------------------------------------------------------------------------
SlotStep(s) ==
    \/ AcquireThreadLock(s) \/ ThreadLockBusy(s)
    \/ BeginAttempt(s) \/ BeginAttemptFails(s)
    \/ ReconcileOwn(s) \/ DecideCancel(s) \/ DecideStart(s) \/ DecideResume(s)
    \/ ReconcileExhausted(s)
    \/ ControlGuard(s) \/ InvocationCancelled(s)
    \/ WaitNodeResumes(s) \/ NodeContinues(s) \/ NodeDecides(s) \/ GraphStops(s) \/ Observe(s)
    \/ RejectUnstarted(s) \/ MarkApplied(s) \/ MarkAppliedFails(s)
    \/ MarkRejected(s) \/ MarkRejectedFails(s)
    \/ RejectCancelled(s) \/ ReleaseForRetry(s) \/ Defer(s)
    \/ SyncProducts(s) \/ MarkProductSynced(s)

SlotFault(s) == SyncProductsFails(s) \/ TransientError(s) \/ ToolOwnedElsewhere(s)

Next ==
    \/ \E c \in Commands :
          \/ Intake(c) \/ OrphanExpires(c) \/ HeartbeatStalls(c)
          \/ \E s \in Slots : Claim(s, c)
          \/ \E p \in Claimants : ReconcileProducts(p, c) \/ ReconcileProductsFails(p, c)
    \/ \E s \in Slots : SlotStep(s) \/ SlotFault(s) \/ Heartbeat(s)
    \/ \E p \in Claimants : ReconcilerMarksSynced(p) \/ Crash(p) \/ Restart(p)

Spec == Init /\ [][Next]_vars

(***************************************************************************)
(* Fairness.  Worker daemons poll for ever, so a slot with a step to take  *)
(* takes it, an idle slot claims, processes are restarted, leases run out  *)
(* and the reconciler polls.  model_turn_limit bounds the model turns of a *)
(* Run, so an invocation cannot go on for ever without deciding.           *)
(***************************************************************************)
Fairness ==
    /\ \A s \in Slots :
          /\ WF_vars(SlotStep(s))
          /\ WF_vars(\E c \in Commands : Claim(s, c))
          /\ SF_vars(NodeDecides(s))
    /\ \A c \in Commands : WF_vars(OrphanExpires(c))
    /\ \A p \in Claimants :
          /\ WF_vars(\E c \in Commands : ReconcileProducts(p, c))
          /\ WF_vars(ReconcilerMarksSynced(p))
          /\ WF_vars(Restart(p))

FairSpec == Spec /\ Fairness

-----------------------------------------------------------------------------
(***************************************************************************)
(* Safety.                                                                 *)
(***************************************************************************)

\* Two run_once calls never work on one Thread at the same time, although
\* claims can be lost, taken over and shared by the slots of a process
\* (run_with_thread_lock around _process_locked).
OneWriterPerThread ==
    \A s1, s2 \in Slots :
        /\ s1 # s2
        /\ slot[s1].pc \in LockedPhases
        /\ slot[s2].pc \in LockedPhases
        => ThreadOf[Run(s1)] # ThreadOf[Run(s2)]

\* A Command whose checkpoint has reached a wait or the end is never executed
\* again: redelivery after a crash, a lost claim or a retry only settles it
\* (read_for_command before every execute in _process_locked).
StableCheckpointIsFinal ==
    [][\A c \in Commands : Stable(graph[c].status) => graph'[c] = graph[c]]_vars

\* After a Run has ended no other Command writes a checkpoint of it (the
\* already_terminal early returns of _process_locked).
FinishedRunNeverAdvances ==
    [][\A r \in Runs : ~NotStarted(r) /\ LatestDisposition(r) = "terminal"
                          => latest'[r] = latest[r]]_vars

\* A start or a resume is recorded as applied only with a stable checkpoint of
\* its own, and with the one it really has, however often it was reclaimed and
\* also after its last attempt (mark_applied in _process_locked and
\* _process_exhausted_locked).
AppliedAtOwnBoundary ==
    \A c \in Commands :
        cmd[c].status = "applied" /\ Kind[c] # "cancel"
            => Stable(graph[c].status) /\ cmd[c].checkpoint = OwnCheckpoint(c)

\* While a resume runs the Graph, the start of its Run is settled: no resume
\* overtakes a start whose worker died (_claim_statement).
StartSettlesBeforeResume ==
    \A s \in Slots : \A p \in Commands :
        /\ slot[s].pc \in GraphPhases
        /\ Kind[Cmd(s)] = "resume"
        /\ RunOf[p] = Run(s)
        /\ Kind[p] = "start"
        => Settled(p)

\* The Run was rejected at its start, or cancelled.
Abandoned(r) ==
    \/ RejectedStart(r)
    \/ \E c \in Commands : RunOf[c] = r /\ Kind[c] = "cancel" /\ cmd[c].status = "applied"

\* A Run of a lane executes its Graph only while it holds the lane, from the
\* claim of the start over every wait to the end: no product handler, retry or
\* repair gives the lane away under it (claim_next_command,
\* SchedulingLaneCompletionHandler, release_rejected_start_lanes).
LaneCoversExecution ==
    \A s \in Slots :
        slot[s].pc \in GraphPhases /\ LaneOf[Run(s)] # NoLane /\ ~Abandoned(Run(s))
            => laneHeld[Run(s)]

\* A lane held by a Run whose start was rejected has somebody left to release
\* it: a cancel that is open, waits for its products or asks for
\* reconciliation (mark_command_rejected, reject_unstarted_run_for_cancel).
AbandonedLaneHasOwner ==
    \A r \in Runs :
        laneHeld[r] /\ RejectedStart(r)
            => \E c \in Commands :
                  /\ RunOf[c] = r
                  /\ Kind[c] = "cancel"
                  /\ Unfinished(c) \/ AwaitsProducts(c) \/ cmd[c].error = "reconciliation_required"

-----------------------------------------------------------------------------
(***************************************************************************)
(* What docs and comments say of the worker and the code does not do.      *)
(***************************************************************************)

\* Once a cancel of a Run is applied, no resume of the Run executes (the rule
\* "cancel first, then every later resume is rejected" of the decisions).
CancelledRunNeverResumes ==
    [][\A c, d \in Commands :
          /\ Kind[c] = "cancel" /\ cmd[c].status = "applied"
          /\ Kind[d] = "resume" /\ RunOf[d] = RunOf[c]
          => graph'[d] = graph[d]]_vars

\* A crash of a worker, once, and with attempts left, never ends in a Command
\* that asks for manual reconciliation: the next worker continues from the
\* checkpoint (the crash recovery criterion of the decisions).
CrashIsRecovered ==
    \A c \in Commands : cmd[c].error # "reconciliation_required"

-----------------------------------------------------------------------------
(***************************************************************************)
(* Liveness, under FairSpec.                                               *)
(***************************************************************************)

\* Every enqueued Command is applied or rejected in the end, whichever worker
\* dies while it holds it (leases, reclaiming and the attempt limit).
EveryCommandSettles ==
    \A c \in Commands : cmd[c].status = "pending" ~> Settled(c)

\* The Run has reached the end of its Graph.
Ended(r) == ~NotStarted(r) /\ LatestDisposition(r) = "terminal"

\* The products of every applied Command are synchronized in the end and a Run
\* that has ended is recorded as completed, also when the worker died or a
\* product failed after the commit of the settlement: they are written by
\* another transaction and perhaps by another process (product_sync_pending,
\* _record_lifecycle_events and RuntimeProductReconciler).
ProductsFollow ==
    /\ \A c \in Commands : cmd[c].status = "applied" ~> cmd[c].error = "none"
    /\ \A r \in Runs : Ended(r) ~> "run_completed" \in events[r]

\* A Run that has ended gives its lane back, whatever fails on the way
\* (SchedulingLaneCompletionHandler, retried by the reconciler).
LaneIsReturned ==
    \A r \in Runs : Ended(r) ~> ~laneHeld[r]

\* A start queued behind a lane is executed once every other Run of the lane
\* is over (_claim_statement and the lane hand-over).
QueuedStartProceeds ==
    \A c \in Commands :
        (/\ cmd[c].status = "pending"
         /\ Kind[c] = "start"
         /\ \A r \in Runs : LaneOf[r] = LaneOf[RunOf[c]] /\ r # RunOf[c]
                               => RejectedStart(r) \/ Ended(r))
            ~> Settled(c)
=============================================================================

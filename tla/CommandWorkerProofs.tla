------------------------- MODULE CommandWorkerProofs -------------------------
(***************************************************************************)
(* The worker, proved for every number of slots, processes, Commands, Runs *)
(* and Threads, every attempt limit and every number of faults.            *)
(***************************************************************************)
EXTENDS CommandWorker, CommandInboxProofs

(***************************************************************************)
(* The inductive invariant.  TypeOK alone does not say that a busy slot    *)
(* has a Command, that a rejection has a code, and that the phases of      *)
(* LockedPhases are really under the lock of the Command's Thread.         *)
(***************************************************************************)
SlotOwnsCommand == \A s \in Slots : ~At(s, "idle") => Cmd(s) \in Commands

CodeIsChosen ==
    \A s \in Slots : slot[s].pc \in {"reject", "cancelled"} => slot[s].code \in RejectionCodes

LockIsHeld ==
    \A s \in Slots : slot[s].pc \in LockedPhases => lock[ThreadOf[Run(s)]] = s

ObservesCheckpoint ==
    \A s \in Slots : At(s, "observe") => graph[Cmd(s)].status # "none"

WorkerInv ==
    TypeOK /\ SlotOwnsCommand /\ CodeIsChosen /\ LockIsHeld /\ ObservesCheckpoint

(***************************************************************************)
(* How a step of one slot can look to the others.                          *)
(***************************************************************************)
Moved(s) ==
    /\ slot' \in [Slots -> SlotState]
    /\ \A q \in Slots \ {s} : slot'[q] = slot[q]
    /\ slot'[s].pc # "idle" => slot'[s].cmd = slot[s].cmd
    /\ slot'[s].pc \in {"reject", "cancelled"} => slot'[s].code \in RejectionCodes

\* It takes the lock, works under it, gives it up, or works without it.
Entered(s) ==
    /\ Moved(s)
    /\ slot[s].pc = "claimed"
    /\ slot'[s].pc \in LockedPhases
    /\ lock[ThreadOf[Run(s)]] = NoSlot
    /\ lock' = [lock EXCEPT ![ThreadOf[Run(s)]] = s]

Stayed(s) ==
    /\ Moved(s)
    /\ slot[s].pc \in LockedPhases
    /\ slot'[s].pc \in LockedPhases
    /\ UNCHANGED lock

Left(s) ==
    /\ Moved(s)
    /\ slot[s].pc \in LockedPhases
    /\ slot'[s].pc \notin LockedPhases
    /\ Unlock(s)

Outside(s) ==
    /\ Moved(s)
    /\ slot[s].pc \notin LockedPhases
    /\ slot[s].pc # "idle"
    /\ slot'[s].pc \notin LockedPhases
    /\ UNCHANGED lock

Shape(s) == Entered(s) \/ Stayed(s) \/ Left(s) \/ Outside(s)

\* Moving a slot to a phase changes nothing else of it.
LEMMA GotoMoves ==
    ASSUME TypeOK, NEW s \in Slots, NEW phase \in Phases \ {"reject", "cancelled"},
           Goto(s, phase)
    PROVE  Moved(s) /\ slot'[s].pc = phase /\ slot'[s] = [slot[s] EXCEPT !.pc = phase]
  <1>1. slot[s] \in SlotState
    BY DEF TypeOK
  <1>2. [slot[s] EXCEPT !.pc = phase] \in SlotState
    BY <1>1 DEF SlotState
  <1>3. slot' = [slot EXCEPT ![s] = [slot[s] EXCEPT !.pc = phase]]
    BY DEF Goto, TypeOK
  <1>4. slot' \in [Slots -> SlotState] /\ slot'[s] = [slot[s] EXCEPT !.pc = phase]
    BY <1>2, <1>3 DEF TypeOK
  <1>5. \A q \in Slots \ {s} : slot'[q] = slot[q]
    BY <1>3 DEF TypeOK
  <1>6. slot'[s].pc = phase /\ slot'[s].cmd = slot[s].cmd
    BY <1>1, <1>4 DEF SlotState
  <1> QED
    BY <1>4, <1>5, <1>6 DEF Moved

\* A slot that has decided to apply its Command keeps the checkpoint it chose.
LEMMA ToApplyMoves ==
    ASSUME TypeOK, NEW s \in Slots, NEW ckpt \in Checkpoints \cup {NoCheckpoint},
           ToApply(s, ckpt)
    PROVE  Moved(s) /\ slot'[s].pc = "apply" /\ slot'[s].checkpoint = ckpt
  <1> DEFINE row == [slot[s] EXCEPT !.pc = "apply", !.checkpoint = ckpt]
  <1>1. slot[s] \in SlotState
    BY DEF TypeOK
  <1>2. /\ row \in SlotState
        /\ row.pc = "apply" /\ row.cmd = slot[s].cmd /\ row.checkpoint = ckpt
    BY <1>1 DEF SlotState, Phases, LockedPhases
  <1>3. slot' = [slot EXCEPT ![s] = row]
    BY DEF ToApply, TypeOK
  <1> HIDE DEF row
  <1>4. slot' \in [Slots -> SlotState] /\ slot'[s] = row
    BY <1>2, <1>3 DEF TypeOK
  <1>5. \A q \in Slots \ {s} : slot'[q] = slot[q]
    BY <1>3 DEF TypeOK
  <1> QED
    BY <1>2, <1>4, <1>5 DEF Moved

\* A slot that has decided to reject its Command has a code.
LEMMA ToRejectMoves ==
    ASSUME TypeOK, NEW s \in Slots, NEW code \in RejectionCodes, ToReject(s, code)
    PROVE  Moved(s) /\ slot'[s].pc = "reject"
  <1> DEFINE row == [slot[s] EXCEPT !.pc = "reject", !.code = code]
  <1>1. slot[s] \in SlotState
    BY DEF TypeOK
  <1>2. /\ row \in SlotState
        /\ row.pc = "reject" /\ row.cmd = slot[s].cmd /\ row.code = code
    BY <1>1 DEF SlotState, Phases, LockedPhases
  <1>3. slot' = [slot EXCEPT ![s] = row]
    BY DEF ToReject, TypeOK
  <1> HIDE DEF row
  <1>4. slot' \in [Slots -> SlotState] /\ slot'[s] = row
    BY <1>2, <1>3 DEF TypeOK
  <1>5. \A q \in Slots \ {s} : slot'[q] = slot[q]
    BY <1>3 DEF TypeOK
  <1> QED
    BY <1>2, <1>4, <1>5 DEF Moved

\* A slot that has finished is idle.
LEMMA FinishMoves ==
    ASSUME TypeOK, NEW s \in Slots, Finish(s)
    PROVE  Moved(s) /\ slot'[s].pc = "idle"
  <1>1. /\ IdleSlot \in SlotState
        /\ IdleSlot.pc = "idle"
    BY DEF IdleSlot, SlotState, Phases
  <1>2. slot' = [slot EXCEPT ![s] = IdleSlot]
    BY DEF Finish
  <1>3. slot' \in [Slots -> SlotState] /\ slot'[s] = IdleSlot
    BY <1>1, <1>2 DEF TypeOK
  <1>4. \A q \in Slots \ {s} : slot'[q] = slot[q]
    BY <1>2 DEF TypeOK
  <1> QED
    BY <1>1, <1>3, <1>4 DEF Moved
\* The checkpoint a Command wrote has an id.
LEMMA OwnCheckpointType ==
    ASSUME TypeOK, NEW c \in Commands, graph[c].status # "none"
    PROVE  OwnCheckpoint(c) \in Checkpoints
  <1>1. graph[c].status \in GraphStatuses
    BY DEF TypeOK, GraphState
  <1>2. OwnDisposition(c) \in Dispositions
    BY <1>1 DEF OwnDisposition, Classify, GraphStatuses, Dispositions
  <1> QED
    BY <1>2, CheckpointsAssumption DEF OwnCheckpoint

\* Only a Command that wrote a checkpoint is stable, or has a disposition
\* other than not_started.
LEMMA StableHasCheckpoint ==
    ASSUME TypeOK, NEW c \in Commands, OwnDisposition(c) \in Dispositions
    PROVE  graph[c].status # "none"
  BY DEF OwnDisposition, Classify, Dispositions

\* Every step of a slot takes the lock, keeps it, gives it up or does without.
LEMMA SlotStepShape ==
    ASSUME WorkerInv, NEW s \in Slots, SlotStep(s) \/ SlotFault(s)
    PROVE  Shape(s)
  <1> USE DEF At
  <1>0. TypeOK /\ slot[s] \in SlotState
    BY DEF WorkerInv, TypeOK
  <1>a. ASSUME ~At(s, "idle") PROVE Cmd(s) \in Commands
    BY <1>a DEF WorkerInv, SlotOwnsCommand
  <1>1. CASE AcquireThreadLock(s)
    <2>1. \E phase \in {"exhausted", "begin"} : Goto(s, phase)
      BY <1>1 DEF AcquireThreadLock
    <2>2. Moved(s) /\ slot'[s].pc \in LockedPhases
      BY <1>0, <2>1, GotoMoves DEF Phases, LockedPhases
    <2> QED
      BY <1>1, <2>2 DEF AcquireThreadLock, Shape, Entered
  <1>2. CASE ThreadLockBusy(s)
    <2>1. Moved(s) /\ slot'[s].pc = "retry"
      BY <1>0, <1>2, GotoMoves DEF ThreadLockBusy, Phases, LockedPhases
    <2> QED
      BY <1>2, <2>1 DEF ThreadLockBusy, Shape, Outside, LockedPhases
  <1>3. ASSUME Raise(s), slot[s].pc \in LockedPhases PROVE Shape(s)
    <2>1. Moved(s) /\ slot'[s].pc = "retry"
      BY <1>0, <1>3, GotoMoves DEF Raise, Phases, LockedPhases
    <2> QED
      BY <1>3, <2>1 DEF Raise, Shape, Left, LockedPhases
  <1>4. ASSUME NEW phase \in LockedPhases \ {"reject"}, Goto(s, phase),
               slot[s].pc \in LockedPhases, UNCHANGED lock
        PROVE Shape(s)
    <2>1. Moved(s) /\ slot'[s].pc = phase
      BY <1>0, <1>4, GotoMoves DEF Phases, LockedPhases
    <2> QED
      BY <1>4, <2>1 DEF Shape, Stayed
  <1>5. ASSUME NEW ckpt \in Checkpoints \cup {NoCheckpoint}, ToApply(s, ckpt),
               slot[s].pc \in LockedPhases, UNCHANGED lock
        PROVE Shape(s)
    <2>1. Moved(s) /\ slot'[s].pc = "apply"
      BY <1>0, <1>5, ToApplyMoves
    <2> QED
      BY <1>5, <2>1 DEF Shape, Stayed, LockedPhases
  <1>6. ASSUME NEW code \in RejectionCodes, ToReject(s, code),
               slot[s].pc \in LockedPhases, UNCHANGED lock
        PROVE Shape(s)
    <2>1. Moved(s) /\ slot'[s].pc = "reject"
      BY <1>0, <1>6, ToRejectMoves
    <2> QED
      BY <1>6, <2>1 DEF Shape, Stayed, LockedPhases
  <1>7. ASSUME Finish(s), slot[s].pc \in LockedPhases, Unlock(s) PROVE Shape(s)
    <2>1. Moved(s) /\ slot'[s].pc = "idle"
      BY <1>0, <1>7, FinishMoves
    <2> QED
      BY <1>7, <2>1 DEF Shape, Left, LockedPhases
  <1>8. ASSUME Finish(s), slot[s].pc \in {"cancelled", "retry", "defer"}, UNCHANGED lock
        PROVE Shape(s)
    <2>1. Moved(s) /\ slot'[s].pc = "idle"
      BY <1>0, <1>8, FinishMoves
    <2> QED
      BY <1>8, <2>1 DEF Shape, Outside, LockedPhases
  <1>9. CASE BeginAttempt(s)
    BY <1>4, <1>9 DEF BeginAttempt, LockedPhases
  <1>10. CASE BeginAttemptFails(s)
    BY <1>3, <1>10 DEF BeginAttemptFails, LockedPhases
  <1>11. CASE ReconcileOwn(s)
    <2>1. At(s, "read") /\ OwnCheckpoint(Cmd(s)) \in Checkpoints
      BY <1>0, <1>a, <1>11, OwnCheckpointType DEF ReconcileOwn
    <2> QED
      BY <1>3, <1>4, <1>5, <1>11, <2>1 DEF ReconcileOwn, LockedPhases
  <1>12. CASE DecideCancel(s)
    <2> DEFINE r == Run(s)
    <2>1. CASE NotStarted(r)
      BY <1>4, <1>12, <2>1 DEF DecideCancel, LockedPhases
    <2>2. CASE ~NotStarted(r)
      <3>1. Cmd(s) \in Commands
        BY <1>a, <1>12 DEF DecideCancel
      <3>2. latest[r] \in Commands
        BY <1>0, <2>2, <3>1, CommandsAssumption DEF TypeOK, NotStarted, Run
      <3>3. CASE LatestDisposition(r) = "terminal"
        BY <1>6, <1>12, <2>2, <3>3 DEF DecideCancel, LockedPhases, RejectionCodes
      <3>4. CASE LatestDisposition(r) = "inconsistent"
        BY <1>3, <1>12, <2>2, <3>4 DEF DecideCancel, LockedPhases
      <3>5. CASE LatestDisposition(r) \in {"runnable", "waiting"}
        <4>1. OwnCheckpoint(latest[r]) \in Checkpoints
          BY <1>0, <3>2, <3>5, StableHasCheckpoint, OwnCheckpointType
          DEF LatestDisposition, Dispositions
        <4> QED
          BY <1>5, <1>12, <2>2, <3>5, <4>1 DEF DecideCancel, LockedPhases
      <3> QED
        BY <1>12, <2>2, <3>3, <3>4, <3>5 DEF DecideCancel
    <2> QED
      BY <2>1, <2>2
  <1>13. CASE DecideStart(s)
    BY <1>4, <1>13 DEF DecideStart, LockedPhases
  <1>14. CASE DecideResume(s)
    <2>1. CASE \E code \in RejectionCodes : ToReject(s, code)
      BY <1>6, <1>14, <2>1 DEF DecideResume, LockedPhases
    <2>2. ASSUME NEW phase \in {"node", "guard"},
                 slot' = [slot EXCEPT ![s].resuming = TRUE, ![s].pc = phase]
          PROVE Shape(s)
      <3> DEFINE row == [slot[s] EXCEPT !.resuming = TRUE, !.pc = phase]
      <3>1. row \in SlotState /\ row.pc = phase /\ row.cmd = slot[s].cmd
        BY <1>0 DEF SlotState, Phases, LockedPhases
      <3>2. slot' = [slot EXCEPT ![s] = row]
        BY <1>0, <2>2 DEF TypeOK
      <3> HIDE DEF row
      <3>3. Moved(s) /\ slot'[s].pc = phase
        BY <1>0, <3>1, <3>2 DEF Moved, TypeOK
      <3> QED
        BY <1>14, <3>3 DEF DecideResume, Shape, Stayed, LockedPhases
    <2> QED
      BY <1>14, <2>1, <2>2 DEF DecideResume, RejectionCodes
  <1>15. CASE ReconcileExhausted(s)
    <2>1. CASE Kind[Cmd(s)] # "cancel" /\ Stable(graph[Cmd(s)].status)
      <3>1. OwnCheckpoint(Cmd(s)) \in Checkpoints
        BY <1>0, <1>a, <1>15, <2>1, OwnCheckpointType, StableHasCheckpoint
        DEF ReconcileExhausted, Stable, OwnDisposition, Dispositions
      <3> QED
        BY <1>5, <1>15, <2>1, <3>1 DEF ReconcileExhausted, LockedPhases
    <2>2. CASE ~(Kind[Cmd(s)] # "cancel" /\ Stable(graph[Cmd(s)].status))
      BY <1>6, <1>15, <2>2 DEF ReconcileExhausted, LockedPhases, RejectionCodes
    <2> QED
      BY <2>1, <2>2
  <1>16. CASE ControlGuard(s) \/ NodeContinues(s) \/ NodeDecides(s) \/ GraphStops(s)
    BY <1>4, <1>16 DEF ControlGuard, NodeContinues, NodeDecides, GraphStops, LockedPhases
  <1>17. CASE InvocationCancelled(s)
    <2> DEFINE row == [slot[s] EXCEPT !.pc = "cancelled", !.code = "cancelled_before_apply"]
    <2>1. /\ row \in SlotState /\ row.pc = "cancelled" /\ row.cmd = slot[s].cmd
          /\ row.code \in RejectionCodes
      BY <1>0 DEF SlotState, Phases, RejectionCodes
    <2>2. slot' = [slot EXCEPT ![s] = row]
      BY <1>0, <1>17 DEF InvocationCancelled, TypeOK
    <2> HIDE DEF row
    <2>3. Moved(s) /\ slot'[s].pc = "cancelled"
      BY <1>0, <2>1, <2>2 DEF Moved, TypeOK
    <2> QED
      BY <1>17, <2>3 DEF InvocationCancelled, Shape, Left, LockedPhases
  <1>18. CASE WaitNodeResumes(s)
    <2> DEFINE row == [slot[s] EXCEPT !.pc = "guard", !.resuming = FALSE]
    <2>1. row \in SlotState /\ row.pc = "guard" /\ row.cmd = slot[s].cmd
      BY <1>0 DEF SlotState, Phases, LockedPhases
    <2>2. slot' = [slot EXCEPT ![s] = row]
      BY <1>0, <1>18 DEF WaitNodeResumes, TypeOK
    <2> HIDE DEF row
    <2>3. Moved(s) /\ slot'[s].pc = "guard"
      BY <1>0, <2>1, <2>2 DEF Moved, TypeOK
    <2> QED
      BY <1>18, <2>3 DEF WaitNodeResumes, Shape, Stayed, LockedPhases
  <1>19. CASE Observe(s)
    <2>1. OwnCheckpoint(Cmd(s)) \in Checkpoints
      BY <1>0, <1>a, <1>19, OwnCheckpointType DEF Observe, WorkerInv, ObservesCheckpoint
    <2> QED
      BY <1>5, <1>19, <2>1 DEF Observe, LockedPhases
  <1>20. CASE RejectUnstarted(s)
    BY <1>5, <1>20 DEF RejectUnstarted, LockedPhases
  <1>21. CASE MarkApplied(s) \/ SyncProducts(s)
    BY <1>4, <1>21 DEF MarkApplied, SyncProducts, LockedPhases
  <1>22. CASE MarkAppliedFails(s) \/ MarkRejectedFails(s) \/ TransientError(s)
    BY <1>3, <1>22 DEF MarkAppliedFails, MarkRejectedFails, TransientError, LockedPhases
  <1>23. CASE MarkRejected(s) \/ MarkProductSynced(s) \/ SyncProductsFails(s)
    BY <1>7, <1>23 DEF MarkRejected, MarkProductSynced, SyncProductsFails, LockedPhases
  <1>24. CASE RejectCancelled(s) \/ ReleaseForRetry(s) \/ Defer(s)
    BY <1>8, <1>24 DEF RejectCancelled, ReleaseForRetry, Defer
  <1>25. CASE ToolOwnedElsewhere(s)
    <2>1. Moved(s) /\ slot'[s].pc = "defer"
      BY <1>0, <1>25, GotoMoves DEF ToolOwnedElsewhere, Phases, LockedPhases
    <2> QED
      BY <1>25, <2>1 DEF ToolOwnedElsewhere, Shape, Left, LockedPhases
  <1> QED
    BY <1>1, <1>2, <1>9, <1>10, <1>11, <1>12, <1>13, <1>14, <1>15, <1>16, <1>17, <1>18,
       <1>19, <1>20, <1>21, <1>22, <1>23, <1>24, <1>25
    DEF SlotStep, SlotFault
-----------------------------------------------------------------------------
(***************************************************************************)
(* The worker uses the inbox only through its transactions.                *)
(***************************************************************************)

\* The product handlers give a lane back or leave it.
LEMMA ProductsAreInboxSteps ==
    ASSUME NEW c \in Commands, NEW done \in BOOLEAN,
           laneHeld' = FreedLanes(c, done), UNCHANGED cmd
    PROVE  InboxNext \/ UNCHANGED inboxVars
  <1>1. CASE laneHeld' = laneHeld
    BY <1>1 DEF inboxVars
  <1>2. CASE laneHeld' = [laneHeld EXCEPT ![RunOf[c]] = FALSE]
    <2>1. RunOf[c] \in Runs /\ ReleaseLane(RunOf[c])
      BY <1>2, CommandsAssumption DEF ReleaseLane
    <2> QED
      BY <2>1 DEF InboxNext
  <1> QED
    BY <1>1, <1>2 DEF FreedLanes

\* Whatever a slot does to the tables is one transaction of the inbox.
LEMMA SlotStepIsInboxStep ==
    ASSUME WorkerInv, NEW s \in Slots, SlotStep(s) \/ SlotFault(s) \/ Heartbeat(s)
    PROVE  InboxNext \/ UNCHANGED inboxVars
  <1> DEFINE c == Cmd(s)
  <1> DEFINE w == Me(s)
  <1> DEFINE Goal == InboxNext \/ UNCHANGED inboxVars
  <1>0. w \in Claimants /\ (slot[s].pc # "idle" => c \in Commands)
    BY SlotsAssumption DEF WorkerInv, SlotOwnsCommand, At, Me
  <1>1. ASSUME c \in Commands, ClaimantTransaction(c, w) PROVE Goal
    BY <1>0, <1>1 DEF InboxNext
  <1>2. CASE Heartbeat(s)
    BY <1>0, <1>1, <1>2 DEF Heartbeat, At, ClaimantTransaction
  <1>3. CASE BeginAttempt(s)
    BY <1>0, <1>1, <1>3 DEF BeginAttempt, At, ClaimantTransaction
  <1>4. CASE RejectUnstarted(s)
    BY <1>0, <1>4 DEF RejectUnstarted, At, InboxNext
  <1>5. CASE MarkApplied(s)
    <2>1. slot[s].checkpoint \in Checkpoints \cup {NoCheckpoint}
      BY DEF WorkerInv, TypeOK, SlotState
    <2> QED
      BY <1>0, <1>1, <1>5, <2>1 DEF MarkApplied, At, ClaimantTransaction
  <1>6. CASE MarkRejected(s) \/ RejectCancelled(s)
    <2>1. slot[s].pc \in {"reject", "cancelled"}
      BY <1>6 DEF MarkRejected, RejectCancelled, At
    <2>2. slot[s].code \in RejectionCodes
      BY <2>1 DEF WorkerInv, CodeIsChosen
    <2> QED
      BY <1>0, <1>1, <1>6, <2>1, <2>2 DEF MarkRejected, RejectCancelled, ClaimantTransaction
  <1>7. CASE ReleaseForRetry(s) \/ Defer(s)
    BY <1>0, <1>1, <1>7 DEF ReleaseForRetry, Defer, At, ClaimantTransaction
  <1>8. CASE MarkProductSynced(s)
    BY <1>0, <1>8 DEF MarkProductSynced, At, InboxNext
  <1>9. CASE SyncProducts(s) \/ SyncProductsFails(s)
    <2>1. c \in Commands /\ UNCHANGED cmd
      BY <1>0, <1>9 DEF SyncProducts, SyncProductsFails, At
    <2>2. \E done \in BOOLEAN : laneHeld' = FreedLanes(c, done)
      BY <1>9 DEF SyncProducts, SyncProductsFails, PartialProducts
    <2> QED
      BY <2>1, <2>2, ProductsAreInboxSteps
  <1>10. CASE \/ AcquireThreadLock(s) \/ ThreadLockBusy(s) \/ BeginAttemptFails(s)
              \/ ReconcileOwn(s) \/ DecideCancel(s) \/ DecideStart(s) \/ DecideResume(s)
              \/ ReconcileExhausted(s) \/ ControlGuard(s) \/ InvocationCancelled(s)
              \/ WaitNodeResumes(s) \/ NodeContinues(s) \/ NodeDecides(s) \/ GraphStops(s)
              \/ Observe(s) \/ MarkAppliedFails(s) \/ MarkRejectedFails(s)
              \/ TransientError(s) \/ ToolOwnedElsewhere(s)
    BY <1>10
    DEF AcquireThreadLock, ThreadLockBusy, BeginAttemptFails, ReconcileOwn, DecideCancel,
        DecideStart, DecideResume, ReconcileExhausted, ControlGuard, InvocationCancelled,
        WaitNodeResumes, NodeContinues, NodeDecides, GraphStops, Observe, MarkAppliedFails,
        MarkRejectedFails, TransientError, ToolOwnedElsewhere
  <1> QED
    BY <1>2, <1>3, <1>4, <1>5, <1>6, <1>7, <1>8, <1>9, <1>10 DEF SlotStep, SlotFault

\* Whatever any part of the worker does to the tables is one transaction.
LEMMA WorkerStepIsInboxStep ==
    ASSUME WorkerInv, [Next]_vars
    PROVE  [InboxNext]_inboxVars
  <1> DEFINE Goal == InboxNext \/ UNCHANGED inboxVars
  <1>1. ASSUME NEW c \in Commands, Intake(c) \/ OrphanExpires(c) \/ HeartbeatStalls(c)
        PROVE Goal
    BY <1>1 DEF Intake, OrphanExpires, HeartbeatStalls, InboxNext
  <1>2. ASSUME NEW c \in Commands, NEW s \in Slots, Claim(s, c) PROVE Goal
    <2>1. Me(s) \in Claimants
      BY SlotsAssumption DEF Me
    <2> QED
      BY <1>2, <2>1 DEF Claim, InboxNext
  <1>3. ASSUME NEW c \in Commands, NEW p \in Claimants,
               ReconcileProducts(p, c) \/ ReconcileProductsFails(p, c)
        PROVE Goal
    <2>1. UNCHANGED cmd
      BY <1>3 DEF ReconcileProducts, ReconcileProductsFails
    <2>2. \E done \in BOOLEAN : laneHeld' = FreedLanes(c, done)
      BY <1>3 DEF ReconcileProducts, ReconcileProductsFails, PartialProducts
    <2> QED
      BY <2>1, <2>2, ProductsAreInboxSteps
  <1>4. ASSUME NEW s \in Slots, SlotStep(s) \/ SlotFault(s) \/ Heartbeat(s) PROVE Goal
    BY <1>4, SlotStepIsInboxStep
  <1>5. ASSUME NEW p \in Claimants, ReconcilerMarksSynced(p) PROVE Goal
    <2>1. reconciling[p] \in Commands
      BY <1>5 DEF ReconcilerMarksSynced, WorkerInv, TypeOK
    <2> QED
      BY <1>5, <2>1 DEF ReconcilerMarksSynced, InboxNext
  <1>6. ASSUME NEW p \in Claimants, Crash(p) \/ Restart(p) PROVE Goal
    BY <1>6 DEF Crash, Restart, InboxNext
  <1>7. CASE UNCHANGED vars
    BY <1>7 DEF vars, inboxVars
  <1> QED
    BY <1>1, <1>2, <1>3, <1>4, <1>5, <1>6, <1>7 DEF Next
-----------------------------------------------------------------------------
(***************************************************************************)
(* Checkpoints are written by a slot in a Graph phase, for its own Command *)
(* and never empty.                                                        *)
(***************************************************************************)
Committed(s) ==
    /\ slot[s].pc \in GraphPhases
    /\ \E status \in GraphStatuses \ {"none"}, k \in Correlations \cup {NoCorrelation} :
          Commit(Cmd(s), status, k)

\* What a slot may do to the checkpoints.
LEMMA SlotStepGraph ==
    ASSUME WorkerInv, NEW s \in Slots, SlotStep(s) \/ SlotFault(s)
    PROVE  UNCHANGED graphVars \/ Committed(s)
  <1> DEFINE c == Cmd(s)
  <1>0. ASSUME slot[s].pc \in GraphPhases
        PROVE /\ c \in Commands
              /\ graph[c].status \in GraphStatuses
              /\ graph[c].correlation \in Correlations \cup {NoCorrelation}
              /\ CorrelationOf[c] \in Correlations \cup {NoCorrelation}
    <2>1. c \in Commands
      BY <1>0 DEF WorkerInv, SlotOwnsCommand, At, GraphPhases
    <2> QED
      BY <2>1, SlotsAssumption DEF WorkerInv, TypeOK, GraphState
  <1>1. CASE ControlGuard(s)
    <2>1. slot[s].pc \in GraphPhases
      BY <1>1 DEF ControlGuard, At, GraphPhases
    <2>2. GuardedStatus(c) \in GraphStatuses \ {"none"}
      BY <1>0, <2>1 DEF GuardedStatus, GraphStatuses
    <2>3. (IF graph[c].status = "none" /\ Kind[c] = "resume"
           THEN CorrelationOf[c] ELSE graph[c].correlation) \in Correlations \cup {NoCorrelation}
      BY <1>0, <2>1
    <2> QED
      BY <1>1, <2>1, <2>2, <2>3 DEF ControlGuard, Committed
  <1>2. CASE WaitNodeResumes(s) \/ NodeContinues(s) \/ NodeDecides(s)
    BY <1>2 DEF WaitNodeResumes, NodeContinues, NodeDecides, Committed, At, GraphPhases,
                GraphStatuses
  <1>3. CASE GraphStops(s)
    <2>1. slot[s].pc \in GraphPhases
      BY <1>3 DEF GraphStops, At, GraphPhases
    <2> QED
      BY <1>0, <1>3, <2>1 DEF GraphStops, Committed, GraphStatuses
  <1>4. CASE \/ AcquireThreadLock(s) \/ ThreadLockBusy(s) \/ BeginAttempt(s) \/ BeginAttemptFails(s)
             \/ ReconcileOwn(s) \/ DecideCancel(s) \/ DecideStart(s) \/ DecideResume(s)
             \/ ReconcileExhausted(s) \/ InvocationCancelled(s) \/ Observe(s)
             \/ RejectUnstarted(s) \/ MarkApplied(s) \/ MarkAppliedFails(s)
             \/ MarkRejected(s) \/ MarkRejectedFails(s) \/ RejectCancelled(s)
             \/ ReleaseForRetry(s) \/ Defer(s) \/ SyncProducts(s) \/ MarkProductSynced(s)
             \/ SyncProductsFails(s) \/ TransientError(s) \/ ToolOwnedElsewhere(s)
    BY <1>4
    DEF AcquireThreadLock, ThreadLockBusy, BeginAttempt, BeginAttemptFails, ReconcileOwn,
        DecideCancel, DecideStart, DecideResume, ReconcileExhausted, InvocationCancelled,
        Observe, RejectUnstarted, MarkApplied, MarkAppliedFails, MarkRejected,
        MarkRejectedFails, RejectCancelled, ReleaseForRetry, Defer, SyncProducts,
        MarkProductSynced, SyncProductsFails, TransientError, ToolOwnedElsewhere
  <1> QED
    BY <1>1, <1>2, <1>3, <1>4 DEF SlotStep, SlotFault

\* A commit keeps the types, and touches one Command and one Run.
LEMMA CommittedTypes ==
    ASSUME WorkerInv, NEW s \in Slots, Committed(s)
    PROVE  /\ graph' \in [Commands -> GraphState]
           /\ latest' = [latest EXCEPT ![Run(s)] = Cmd(s)]
           /\ latest' \in [Runs -> Commands \cup {NoCommand}]
           /\ graph'[Cmd(s)].status # "none"
           /\ \A c \in Commands \ {Cmd(s)} : graph'[c] = graph[c]
  <1>1. Cmd(s) \in Commands /\ Run(s) \in Runs
    BY CommandsAssumption DEF Committed, WorkerInv, SlotOwnsCommand, At, GraphPhases, Run
  <1>2. PICK status \in GraphStatuses \ {"none"}, k \in Correlations \cup {NoCorrelation} :
            Commit(Cmd(s), status, k)
    BY DEF Committed
  <1>3. [status |-> status, correlation |-> k] \in GraphState
    BY <1>2 DEF GraphState
  <1>4. graph' = [graph EXCEPT ![Cmd(s)] = [status |-> status, correlation |-> k]]
    BY <1>2 DEF Commit
  <1>5. latest' = [latest EXCEPT ![Run(s)] = Cmd(s)]
    BY <1>2 DEF Commit, Run
  <1> QED
    BY <1>1, <1>3, <1>4, <1>5 DEF WorkerInv, TypeOK

\* A Command that has a checkpoint keeps having one.
LEMMA CheckpointsStay ==
    ASSUME WorkerInv, [Next]_vars, NEW c \in Commands, graph[c].status # "none"
    PROVE  graph'[c].status # "none"
  <1>1. ASSUME NEW s \in Slots, SlotStep(s) \/ SlotFault(s) PROVE graph'[c].status # "none"
    <2>1. CASE UNCHANGED graphVars
      BY <2>1 DEF graphVars
    <2>2. CASE Committed(s)
      BY <2>2, CommittedTypes
    <2> QED
      BY <1>1, <2>1, <2>2, SlotStepGraph
  <1>2. ASSUME UNCHANGED graphVars PROVE graph'[c].status # "none"
    BY <1>2 DEF graphVars
  <1> QED
    BY <1>1, <1>2
    DEF Next, Intake, OrphanExpires, HeartbeatStalls, Claim, ReconcileProducts,
        ReconcileProductsFails, Heartbeat, ReconcilerMarksSynced, Crash, Restart, vars, graphVars
-----------------------------------------------------------------------------
(***************************************************************************)
(* The invariant is inductive.                                             *)
(***************************************************************************)

\* The products record terminal lifecycle events and nothing else.
LEMMA EventsTyped ==
    ASSUME events \in [Runs -> SUBSET TerminalEvents], NEW c \in Commands,
           \/ \E done \in BOOLEAN : RecordEvents(c, done)
           \/ \E code \in RejectionCodes : events' = RejectionEvents(c, code)
    PROVE  events' \in [Runs -> SUBSET TerminalEvents]
  <1>1. RunOf[c] \in Runs
    BY CommandsAssumption
  <1>2. OutcomeEvents(c) \in SUBSET TerminalEvents
    <2>1. events[RunOf[c]] \in SUBSET TerminalEvents
      BY <1>1
    <2> QED
      BY <2>1 DEF OutcomeEvents, TerminalEvents
  <1>3. events[RunOf[c]] \cup {"run_failed"} \in SUBSET TerminalEvents
    BY <1>1 DEF TerminalEvents
  <1> QED
    BY <1>1, <1>2, <1>3 DEF RecordEvents, RejectionEvents

\* What a slot leaves alone, and what it does to events and fault count.
LEMMA SlotStepRest ==
    ASSUME WorkerInv, NEW s \in Slots, SlotStep(s) \/ SlotFault(s)
    PROVE  /\ UNCHANGED procVars
           /\ events' \in [Runs -> SUBSET TerminalEvents]
           /\ faults' \in 0..MaxFaults
  <1>0. /\ events \in [Runs -> SUBSET TerminalEvents]
        /\ faults \in 0..MaxFaults
        /\ slot[s].pc # "idle" => Cmd(s) \in Commands
        /\ slot[s].pc = "reject" => slot[s].code \in RejectionCodes
    BY DEF WorkerInv, TypeOK, SlotOwnsCommand, CodeIsChosen, At
  <1>1. CASE MarkRejected(s)
    <2>1. Cmd(s) \in Commands /\ \E code \in RejectionCodes : events' = RejectionEvents(Cmd(s), code)
      BY <1>0, <1>1 DEF MarkRejected, At
    <2> QED
      BY <1>0, <1>1, <2>1, EventsTyped DEF MarkRejected
  <1>2. CASE SyncProducts(s)
    <2>1. Cmd(s) \in Commands /\ RecordEvents(Cmd(s), TRUE)
      BY <1>0, <1>2 DEF SyncProducts, At
    <2> QED
      BY <1>0, <1>2, <2>1, EventsTyped DEF SyncProducts
  <1>3. CASE SyncProductsFails(s)
    <2>1. Cmd(s) \in Commands /\ \E done \in BOOLEAN : RecordEvents(Cmd(s), done)
      BY <1>0, <1>3 DEF SyncProductsFails, PartialProducts, At
    <2>2. faults' \in 0..MaxFaults
      BY <1>0, <1>3, SlotsAssumption DEF SyncProductsFails, Fault
    <2> QED
      BY <1>0, <1>3, <2>1, <2>2, EventsTyped DEF SyncProductsFails
  <1>4. CASE TransientError(s) \/ ToolOwnedElsewhere(s)
    BY <1>0, <1>4, SlotsAssumption DEF TransientError, ToolOwnedElsewhere, Fault
  <1>5. CASE \/ AcquireThreadLock(s) \/ ThreadLockBusy(s) \/ BeginAttempt(s) \/ BeginAttemptFails(s)
             \/ ReconcileOwn(s) \/ DecideCancel(s) \/ DecideStart(s) \/ DecideResume(s)
             \/ ReconcileExhausted(s) \/ ControlGuard(s) \/ InvocationCancelled(s)
             \/ WaitNodeResumes(s) \/ NodeContinues(s) \/ NodeDecides(s) \/ GraphStops(s)
             \/ Observe(s) \/ RejectUnstarted(s) \/ MarkApplied(s) \/ MarkAppliedFails(s)
             \/ MarkRejectedFails(s) \/ RejectCancelled(s) \/ ReleaseForRetry(s) \/ Defer(s)
             \/ MarkProductSynced(s)
    BY <1>0, <1>5
    DEF AcquireThreadLock, ThreadLockBusy, BeginAttempt, BeginAttemptFails, ReconcileOwn,
        DecideCancel, DecideStart, DecideResume, ReconcileExhausted, ControlGuard,
        InvocationCancelled, WaitNodeResumes, NodeContinues, NodeDecides, GraphStops, Observe,
        RejectUnstarted, MarkApplied, MarkAppliedFails, MarkRejectedFails, RejectCancelled,
        ReleaseForRetry, Defer, MarkProductSynced
  <1> QED
    BY <1>1, <1>2, <1>3, <1>4, <1>5 DEF SlotStep, SlotFault

\* Nobody else's lock is touched by a step of a slot.
LEMMA ShapeKeepsLocks ==
    ASSUME WorkerInv, NEW s \in Slots, Shape(s)
    PROVE  lock' \in [Threads -> Slots \cup {NoSlot}] /\ LockIsHeld' /\ SlotOwnsCommand' /\ CodeIsChosen'
  <1>1. Moved(s)
    BY DEF Shape, Entered, Stayed, Left, Outside
  <1>2. SlotOwnsCommand' /\ CodeIsChosen'
    <2>1. slot[s].pc # "idle"
      BY DEF Shape, Entered, Stayed, Left, Outside, LockedPhases
    <2> QED
      BY <1>1, <2>1 DEF WorkerInv, SlotOwnsCommand, CodeIsChosen, Moved, At, Cmd
  <1>3. Cmd(s) \in Commands /\ ThreadOf[Run(s)] \in Threads
    <2>1. slot[s].pc # "idle"
      BY DEF Shape, Entered, Stayed, Left, Outside, LockedPhases
    <2> QED
      BY <2>1, CommandsAssumption, SlotsAssumption DEF WorkerInv, SlotOwnsCommand, At, Run
  <1>4. lock' \in [Threads -> Slots \cup {NoSlot}]
    BY <1>3 DEF WorkerInv, TypeOK, Shape, Entered, Stayed, Left, Outside, Unlock
  <1>5. LockIsHeld'
    <2> SUFFICES ASSUME NEW q \in Slots, slot'[q].pc \in LockedPhases
                 PROVE lock'[ThreadOf[RunOf[slot'[q].cmd]]] = q
      BY DEF LockIsHeld, Run, Cmd
    <2>0. lock \in [Threads -> Slots \cup {NoSlot}] /\ NoSlot \notin Slots
      BY SlotsAssumption DEF WorkerInv, TypeOK
    <2>1. CASE q = s
      <3>1. slot'[s].cmd = slot[s].cmd
        BY <1>1, <2>1 DEF Moved, LockedPhases
      <3>2. CASE Entered(s)
        BY <1>3, <2>0, <2>1, <3>1, <3>2 DEF Entered, Run, Cmd
      <3>3. CASE Stayed(s)
        BY <2>1, <3>1, <3>3 DEF Stayed, WorkerInv, LockIsHeld, Run, Cmd
      <3> QED
        BY <2>1, <3>2, <3>3 DEF Shape, Left, Outside
    <2>2. CASE q # s
      <3>1. slot'[q] = slot[q]
        BY <1>1, <2>2 DEF Moved
      <3>2. lock[ThreadOf[Run(q)]] = q
        BY <3>1 DEF WorkerInv, LockIsHeld
      <3>3. CASE Entered(s)
        <4>1. ThreadOf[Run(q)] # ThreadOf[Run(s)]
          BY <2>0, <3>2, <3>3 DEF Entered
        <4> QED
          BY <2>0, <3>1, <3>2, <3>3, <4>1 DEF Entered, Run, Cmd
      <3>4. CASE Left(s)
        <4>1. lock[ThreadOf[Run(s)]] = s
          BY <3>4 DEF Left, WorkerInv, LockIsHeld
        <4>2. ThreadOf[Run(q)] # ThreadOf[Run(s)]
          BY <2>2, <3>2, <4>1
        <4> QED
          BY <2>0, <3>1, <3>2, <3>4, <4>2 DEF Left, Unlock, Run, Cmd
      <3>5. CASE UNCHANGED lock
        BY <3>1, <3>2, <3>5 DEF Run, Cmd
      <3> QED
        BY <3>3, <3>4, <3>5 DEF Shape, Stayed, Outside
    <2> QED
      BY <2>1, <2>2
  <1> QED
    BY <1>2, <1>4, <1>5
\* The steps of a slot that neither run the Graph nor decide how to settle.
Quiet(s) ==
    \/ AcquireThreadLock(s) \/ ThreadLockBusy(s) \/ BeginAttempt(s) \/ BeginAttemptFails(s)
    \/ InvocationCancelled(s) \/ MarkApplied(s) \/ MarkAppliedFails(s) \/ MarkRejected(s)
    \/ MarkRejectedFails(s) \/ RejectCancelled(s) \/ ReleaseForRetry(s) \/ Defer(s)
    \/ SyncProducts(s) \/ MarkProductSynced(s)
    \/ SyncProductsFails(s) \/ TransientError(s) \/ ToolOwnedElsewhere(s)

\* A quiet step leads neither into the Graph nor to a settlement.
LEMMA QuietPhases ==
    ASSUME TypeOK, NEW s \in Slots, Quiet(s)
    PROVE  slot'[s].pc \notin {"guard", "node", "observe", "apply"}
  <1>1. ASSUME NEW phase \in {"exhausted", "begin", "read", "retry", "sync", "mark", "defer"},
               Goto(s, phase)
        PROVE slot'[s].pc \notin {"guard", "node", "observe", "apply"}
    <2>1. slot'[s].pc = phase
      BY <1>1, GotoMoves DEF Phases, LockedPhases
    <2> QED
      BY <2>1
  <1>2. ASSUME Finish(s) PROVE slot'[s].pc \notin {"guard", "node", "observe", "apply"}
    BY <1>2, FinishMoves
  <1>3. CASE InvocationCancelled(s)
    BY <1>3 DEF InvocationCancelled, TypeOK, SlotState
  <1> QED
    BY <1>1, <1>2, <1>3
    DEF Quiet, AcquireThreadLock, ThreadLockBusy, BeginAttempt, BeginAttemptFails, Raise,
        MarkApplied, MarkAppliedFails, MarkRejected, MarkRejectedFails, RejectCancelled,
        ReleaseForRetry, Defer, SyncProducts, MarkProductSynced, SyncProductsFails,
        TransientError, ToolOwnedElsewhere

\* Only ainvoke's return leads to the reading of the new checkpoint.
LEMMA ObserveFollowsGraph ==
    ASSUME WorkerInv, NEW s \in Slots, SlotStep(s) \/ SlotFault(s), slot'[s].pc = "observe"
    PROVE  GraphStops(s)
  <1>0. TypeOK
    BY DEF WorkerInv
  <1>1. CASE Quiet(s)
    BY <1>0, <1>1, QuietPhases
  <1>2. CASE \/ ReconcileOwn(s) \/ DecideCancel(s) \/ DecideStart(s) \/ DecideResume(s)
             \/ ReconcileExhausted(s) \/ ControlGuard(s) \/ WaitNodeResumes(s)
             \/ NodeContinues(s) \/ NodeDecides(s) \/ Observe(s) \/ RejectUnstarted(s)
    <2>1. slot'[s].pc \in {"apply", "retry", "guard", "unstart", "reject", "node"}
      BY <1>0, <1>2
      DEF ReconcileOwn, DecideCancel, DecideStart, DecideResume, ReconcileExhausted,
          ControlGuard, WaitNodeResumes, NodeContinues, NodeDecides, Observe, RejectUnstarted,
          Raise, Goto, ToApply, ToReject, TypeOK, SlotState
    <2> QED
      BY <2>1
  <1> QED
    BY <1>1, <1>2 DEF SlotStep, SlotFault, Quiet
\* Claiming fills an idle slot; it is not yet under the lock.
LEMMA ClaimKeepsInv ==
    ASSUME WorkerInv, NEW s \in Slots, NEW c \in Commands, Claim(s, c)
    PROVE  /\ slot' \in [Slots -> SlotState]
           /\ slot'[s].pc = "claimed"
           /\ \A q \in Slots \ {s} : slot'[q] = slot[q]
           /\ SlotOwnsCommand' /\ CodeIsChosen' /\ LockIsHeld' /\ ObservesCheckpoint'
  <1> DEFINE spent == cmd[c].attempts >= MaxAttempts
  <1> DEFINE row == [IdleSlot EXCEPT !.pc = "claimed", !.cmd = c, !.exhausted = spent]
  <1>0. spent \in BOOLEAN
    OBVIOUS
  <1>1. row \in SlotState /\ row.pc = "claimed" /\ row.cmd = c
    <2> HIDE DEF spent
    <2> QED
      BY <1>0 DEF IdleSlot, SlotState, Phases
  <1>2. slot' = [slot EXCEPT ![s] = row]
    BY DEF Claim
  <1> HIDE DEF row
  <1>3. slot' \in [Slots -> SlotState] /\ slot'[s] = row
    BY <1>1, <1>2 DEF WorkerInv, TypeOK
  <1>4. \A q \in Slots \ {s} : slot'[q] = slot[q]
    BY <1>2 DEF WorkerInv, TypeOK
  <1>5. UNCHANGED <<lock, graph>>
    BY DEF Claim, graphVars
  <1>6. SlotOwnsCommand' /\ CodeIsChosen'
    BY <1>1, <1>3, <1>4 DEF WorkerInv, SlotOwnsCommand, CodeIsChosen, At, Cmd
  <1>7. LockIsHeld' /\ ObservesCheckpoint'
    BY <1>1, <1>3, <1>4, <1>5
    DEF WorkerInv, LockIsHeld, ObservesCheckpoint, At, Run, Cmd, LockedPhases
  <1> QED
    BY <1>1, <1>3, <1>4, <1>6, <1>7

\* A crash frees the locks of its own slots only.
LEMMA CrashKeepsInv ==
    ASSUME WorkerInv, NEW p \in Claimants, Crash(p)
    PROVE  /\ slot' \in [Slots -> SlotState]
           /\ lock' \in [Threads -> Slots \cup {NoSlot}]
           /\ SlotOwnsCommand' /\ CodeIsChosen' /\ LockIsHeld' /\ ObservesCheckpoint'
  <1>1. IdleSlot \in SlotState /\ IdleSlot.pc = "idle"
    BY DEF IdleSlot, SlotState, Phases
  <1>2. slot' = [s \in Slots |-> IF Me(s) = p THEN IdleSlot ELSE slot[s]]
    BY DEF Crash
  <1>3. lock' = [t \in Threads |->
                    IF lock[t] # NoSlot /\ ProcessOf[lock[t]] = p THEN NoSlot ELSE lock[t]]
    BY DEF Crash
  <1>4. slot' \in [Slots -> SlotState]
    BY <1>1, <1>2 DEF WorkerInv, TypeOK
  <1>5. lock' \in [Threads -> Slots \cup {NoSlot}]
    BY <1>3 DEF WorkerInv, TypeOK
  <1>6. \A s \in Slots : slot'[s].pc # "idle" => slot'[s] = slot[s] /\ Me(s) # p
    BY <1>1, <1>2
  <1>7. SlotOwnsCommand' /\ CodeIsChosen'
    BY <1>6 DEF WorkerInv, SlotOwnsCommand, CodeIsChosen, At, Cmd
  <1>8. UNCHANGED graph
    BY DEF Crash, graphVars
  <1>9. ObservesCheckpoint'
    BY <1>6, <1>8 DEF WorkerInv, ObservesCheckpoint, At, Cmd
  <1>10. LockIsHeld'
    <2> SUFFICES ASSUME NEW s \in Slots, slot'[s].pc \in LockedPhases
                 PROVE lock'[ThreadOf[RunOf[slot'[s].cmd]]] = s
      BY DEF LockIsHeld, Run, Cmd
    <2>1. slot'[s] = slot[s] /\ ProcessOf[s] # p
      BY <1>6 DEF LockedPhases, Me
    <2>2. lock[ThreadOf[Run(s)]] = s
      BY <2>1 DEF WorkerInv, LockIsHeld
    <2>3. ThreadOf[Run(s)] \in Threads
      BY <2>1, CommandsAssumption, SlotsAssumption
      DEF WorkerInv, SlotOwnsCommand, At, Run, LockedPhases
    <2> QED
      BY <1>3, <2>1, <2>2, <2>3 DEF Run, Cmd
  <1> QED
    BY <1>4, <1>5, <1>7, <1>9, <1>10

\* The other parts of the worker leave slots and locks alone.
Background ==
    \/ \E c \in Commands :
          \/ Intake(c) \/ OrphanExpires(c) \/ HeartbeatStalls(c)
          \/ \E p \in Claimants : ReconcileProducts(p, c) \/ ReconcileProductsFails(p, c)
    \/ \E s \in Slots : Heartbeat(s)
    \/ \E p \in Claimants : ReconcilerMarksSynced(p) \/ Restart(p)

\* What the background keeps, and the types of what it changes.
LEMMA BackgroundStep ==
    ASSUME WorkerInv, Background
    PROVE  /\ UNCHANGED <<slot, lock, graphVars>>
           /\ events' \in [Runs -> SUBSET TerminalEvents]
           /\ up' \in [Claimants -> BOOLEAN]
           /\ reconciling' \in [Claimants -> Commands \cup {NoCommand}]
           /\ faults' \in 0..MaxFaults
  <1>0. /\ events \in [Runs -> SUBSET TerminalEvents]
        /\ up \in [Claimants -> BOOLEAN]
        /\ reconciling \in [Claimants -> Commands \cup {NoCommand}]
        /\ faults \in 0..MaxFaults
        /\ MaxFaults \in Nat
    BY SlotsAssumption DEF WorkerInv, TypeOK
  <1>1. CASE \/ \E c \in Commands : Intake(c) \/ OrphanExpires(c)
             \/ \E s \in Slots : Heartbeat(s)
    BY <1>0, <1>1 DEF Intake, OrphanExpires, Heartbeat, workerVars, procVars
  <1>2. ASSUME NEW c \in Commands, HeartbeatStalls(c)
        PROVE /\ UNCHANGED <<slot, lock, graphVars, events, up, reconciling>>
              /\ faults' \in 0..MaxFaults
    BY <1>0, <1>2 DEF HeartbeatStalls, Fault, workerVars, procVars
  <1>3. ASSUME NEW c \in Commands, NEW p \in Claimants, ReconcileProducts(p, c)
        PROVE /\ UNCHANGED <<slot, lock, graphVars, up, faults>>
              /\ events' \in [Runs -> SUBSET TerminalEvents]
              /\ reconciling' \in [Claimants -> Commands \cup {NoCommand}]
    <2>1. RecordEvents(c, TRUE)
      BY <1>3 DEF ReconcileProducts
    <2>2. events' \in [Runs -> SUBSET TerminalEvents]
      BY <1>0, <2>1, EventsTyped
    <2> QED
      BY <1>0, <1>3, <2>2 DEF ReconcileProducts
  <1>4. ASSUME NEW c \in Commands, NEW p \in Claimants, ReconcileProductsFails(p, c)
        PROVE /\ UNCHANGED <<slot, lock, graphVars, up, reconciling>>
              /\ events' \in [Runs -> SUBSET TerminalEvents]
              /\ faults' \in 0..MaxFaults
    <2>1. \E done \in BOOLEAN : RecordEvents(c, done)
      BY <1>4 DEF ReconcileProductsFails, PartialProducts
    <2>2. events' \in [Runs -> SUBSET TerminalEvents]
      BY <1>0, <2>1, EventsTyped
    <2> QED
      BY <1>0, <1>4, <2>2 DEF ReconcileProductsFails, Fault, workerVars, procVars
  <1>5. ASSUME NEW p \in Claimants, ReconcilerMarksSynced(p)
        PROVE /\ UNCHANGED <<slot, lock, graphVars, events, up, faults>>
              /\ reconciling' \in [Claimants -> Commands \cup {NoCommand}]
    BY <1>0, <1>5 DEF ReconcilerMarksSynced
  <1>6. ASSUME NEW p \in Claimants, Restart(p)
        PROVE /\ UNCHANGED <<slot, lock, graphVars, events, reconciling, faults>>
              /\ up' \in [Claimants -> BOOLEAN]
    BY <1>0, <1>6 DEF Restart
  <1> DEFINE Goal ==
          /\ UNCHANGED <<slot, lock, graphVars>>
          /\ events' \in [Runs -> SUBSET TerminalEvents]
          /\ up' \in [Claimants -> BOOLEAN]
          /\ reconciling' \in [Claimants -> Commands \cup {NoCommand}]
          /\ faults' \in 0..MaxFaults
  <1>7. ASSUME NEW c \in Commands, HeartbeatStalls(c) PROVE Goal
    BY <1>0, <1>2, <1>7
  <1>8. ASSUME NEW c \in Commands, NEW p \in Claimants,
               ReconcileProducts(p, c) \/ ReconcileProductsFails(p, c)
        PROVE Goal
    BY <1>0, <1>3, <1>4, <1>8
  <1>9. ASSUME NEW p \in Claimants, ReconcilerMarksSynced(p) \/ Restart(p) PROVE Goal
    BY <1>0, <1>5, <1>6, <1>9
  <1> QED
    BY <1>1, <1>7, <1>8, <1>9 DEF Background
\* The next-state relation, by who moves.
LEMMA NextCases ==
    ASSUME [Next]_vars
    PROVE  \/ \E s \in Slots : SlotStep(s) \/ SlotFault(s)
           \/ \E s \in Slots, c \in Commands : Claim(s, c)
           \/ \E p \in Claimants : Crash(p)
           \/ Background
           \/ UNCHANGED vars
  BY DEF Next, Background

\* Initially every slot is idle and nothing is locked.
LEMMA WorkerInvInit == Init => WorkerInv
  <1> SUFFICES ASSUME Init PROVE WorkerInv
    OBVIOUS
  <1>1. InboxTypeOK
    BY InboxInitTypeOK DEF Init
  <1>2. IdleSlot \in SlotState /\ IdleSlot.pc = "idle"
    BY DEF IdleSlot, SlotState, Phases
  <1>3. [status |-> "none", correlation |-> NoCorrelation] \in GraphState
    BY DEF GraphState, GraphStatuses
  <1>4. TypeOK
    BY <1>1, <1>2, <1>3, SlotsAssumption DEF Init, TypeOK
  <1>5. \A s \in Slots : slot[s].pc = "idle"
    BY <1>2 DEF Init
  <1> QED
    BY <1>4, <1>5
    DEF WorkerInv, SlotOwnsCommand, CodeIsChosen, LockIsHeld, ObservesCheckpoint, At, LockedPhases

\* Every step keeps the invariant.
LEMMA WorkerInvStep == WorkerInv /\ [Next]_vars => WorkerInv'
  <1> SUFFICES ASSUME WorkerInv, [Next]_vars PROVE WorkerInv'
    OBVIOUS
  <1>0. TypeOK /\ InboxTypeOK'
    BY WorkerStepIsInboxStep, InboxStepTypeOK DEF WorkerInv, TypeOK
  <1>1. ASSUME NEW s \in Slots, SlotStep(s) \/ SlotFault(s) PROVE WorkerInv'
    <2>1. Shape(s)
      BY <1>1, SlotStepShape
    <2>2. Moved(s)
      BY <2>1 DEF Shape, Entered, Stayed, Left, Outside
    <2>3. /\ lock' \in [Threads -> Slots \cup {NoSlot}]
          /\ LockIsHeld' /\ SlotOwnsCommand' /\ CodeIsChosen'
      BY <2>1, ShapeKeepsLocks
    <2>4. /\ graph' \in [Commands -> GraphState]
          /\ latest' \in [Runs -> Commands \cup {NoCommand}]
      <3>1. CASE UNCHANGED graphVars
        BY <1>0, <3>1 DEF graphVars, TypeOK
      <3>2. CASE Committed(s)
        BY <3>2, CommittedTypes
      <3> QED
        BY <1>1, <3>1, <3>2, SlotStepGraph
    <2>5. /\ UNCHANGED procVars
          /\ events' \in [Runs -> SUBSET TerminalEvents]
          /\ faults' \in 0..MaxFaults
      BY <1>1, SlotStepRest
    <2>6. TypeOK'
      BY <1>0, <2>2, <2>3, <2>4, <2>5 DEF TypeOK, Moved, procVars
    <2>7. ObservesCheckpoint'
      <3> SUFFICES ASSUME NEW q \in Slots, slot'[q].pc = "observe"
                   PROVE graph'[slot'[q].cmd].status # "none"
        BY DEF ObservesCheckpoint, At, Cmd
      <3>1. CASE q = s
        <4>1. GraphStops(s)
          BY <1>1, <3>1, ObserveFollowsGraph
        <4>2. Committed(s) \/ UNCHANGED graphVars
          BY <1>1, SlotStepGraph
        <4>3. slot'[s].cmd = slot[s].cmd /\ Cmd(s) \in Commands
          BY <2>2, <3>1, <4>1 DEF Moved, GraphStops, At, WorkerInv, SlotOwnsCommand
        <4>4. graph[Cmd(s)].status \in {"to_wait", "to_end"}
          BY <4>1 DEF GraphStops
        <4>5. graph'[Cmd(s)].status # "none"
          BY <4>3, <4>4, CheckpointsStay
        <4> QED
          BY <3>1, <4>3, <4>5 DEF Cmd
      <3>2. CASE q # s
        <4>1. slot'[q] = slot[q] /\ Cmd(q) \in Commands
          BY <2>2, <3>2 DEF Moved, WorkerInv, SlotOwnsCommand, At
        <4>2. graph[Cmd(q)].status # "none"
          BY <4>1 DEF WorkerInv, ObservesCheckpoint, At
        <4> QED
          BY <4>1, <4>2, CheckpointsStay DEF Cmd
      <3> QED
        BY <3>1, <3>2
    <2> QED
      BY <2>3, <2>6, <2>7 DEF WorkerInv
  <1>2. ASSUME NEW s \in Slots, NEW c \in Commands, Claim(s, c) PROVE WorkerInv'
    BY <1>0, <1>2, ClaimKeepsInv DEF Claim, WorkerInv, TypeOK, graphVars, procVars
  <1>3. ASSUME NEW p \in Claimants, Crash(p) PROVE WorkerInv'
    <2>1. /\ up' \in [Claimants -> BOOLEAN]
          /\ reconciling' \in [Claimants -> Commands \cup {NoCommand}]
          /\ faults' \in 0..MaxFaults
          /\ UNCHANGED <<graph, latest, events>>
      BY <1>0, <1>3, SlotsAssumption DEF Crash, Fault, TypeOK, graphVars
    <2> QED
      BY <1>0, <1>3, <2>1, CrashKeepsInv DEF WorkerInv, TypeOK
  <1>4. CASE Background
    <2>1. /\ UNCHANGED <<slot, lock, graph, latest>>
          /\ events' \in [Runs -> SUBSET TerminalEvents]
          /\ up' \in [Claimants -> BOOLEAN]
          /\ reconciling' \in [Claimants -> Commands \cup {NoCommand}]
          /\ faults' \in 0..MaxFaults
      BY <1>4, BackgroundStep DEF graphVars
    <2>2. TypeOK'
      BY <1>0, <2>1 DEF TypeOK
    <2>3. SlotOwnsCommand' /\ CodeIsChosen' /\ LockIsHeld' /\ ObservesCheckpoint'
      BY <2>1
      DEF WorkerInv, SlotOwnsCommand, CodeIsChosen, LockIsHeld, ObservesCheckpoint, At, Run, Cmd
    <2> QED
      BY <2>2, <2>3 DEF WorkerInv
  <1>5. CASE UNCHANGED vars
    BY <1>5
    DEF vars, WorkerInv, TypeOK, InboxTypeOK, SlotOwnsCommand, CodeIsChosen, LockIsHeld,
        ObservesCheckpoint, At, Run, Cmd
  <1> QED
    BY <1>1, <1>2, <1>3, <1>4, <1>5, NextCases

\* The invariant holds of every behaviour of the worker.
THEOREM WorkerInvariant == Spec => []WorkerInv
  <1>1. Init => WorkerInv
    BY WorkerInvInit
  <1>2. WorkerInv /\ [Next]_vars => WorkerInv'
    BY WorkerInvStep
  <1> QED
    BY <1>1, <1>2, PTL DEF Spec

\* Tables, slots, locks and checkpoints keep their types, and attempts stay
\* within the limit, however claims are lost, shared and retried.
THEOREM WorkerTypeCorrect == Spec => []TypeOK
  <1>1. WorkerInv => TypeOK
    BY DEF WorkerInv
  <1> QED
    BY <1>1, WorkerInvariant, PTL

\* At most one slot works on a Thread, for every number of slots and
\* processes: a lost or shared claim never gets a second slot past the lock.
THEOREM WorkerOneWriter == Spec => []OneWriterPerThread
  <1>1. WorkerInv => OneWriterPerThread
    BY DEF WorkerInv, LockIsHeld, OneWriterPerThread
  <1> QED
    BY <1>1, WorkerInvariant, PTL

\* The worker, its reconciler and its startup repair use the tables only by
\* the transactions of persistence.py, so all theorems of the inbox hold here.
THEOREM WorkerImplementsInbox == Spec => InboxSpec
  <1>1. Init => InboxInit
    BY DEF Init
  <1>2. WorkerInv /\ [Next]_vars => [InboxNext]_inboxVars
    BY WorkerStepIsInboxStep
  <1> QED
    BY <1>1, <1>2, WorkerInvariant, PTL DEF Spec, InboxSpec

\* The lanes of the complete worker are exclusive, and its settlements final.
COROLLARY WorkerInheritsInbox == Spec => []LaneExclusive /\ SettlementIsFinal /\ LedgerSpec
  BY WorkerImplementsInbox, InboxLaneExclusive, InboxSettlementIsFinal, InboxImplementsLedger, PTL
=============================================================================

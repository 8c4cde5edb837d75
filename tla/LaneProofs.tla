------------------------------ MODULE LaneProofs ------------------------------
(***************************************************************************)
(* Scheduling over the complete worker: what a resume waits for, how long  *)
(* a Run keeps its lane, and who gives back the lane of a Run whose start  *)
(* was rejected.  Proved on top of the lock and the checkpoint invariants. *)
(***************************************************************************)
EXTENDS CheckpointProofs

(***************************************************************************)
(* Order.  A Run has its start before any other Command, and a slot that   *)
(* holds a resume holds it because the start is settled.                   *)
(***************************************************************************)
StartFirst ==
    \A c, p \in Commands :
        RunOf[p] = RunOf[c] /\ Kind[p] = "start" /\ cmd[c].status # "absent"
            => cmd[p].status # "absent"

ResumeAfterStart ==
    \A s \in Slots : \A p \in Commands :
        ~At(s, "idle") /\ Kind[Cmd(s)] = "resume" /\ RunOf[p] = Run(s) /\ Kind[p] = "start"
            => Settled(p)

OrderInv == StartFirst /\ ResumeAfterStart

(***************************************************************************)
(* Where the steps of a slot lead.                                         *)
(***************************************************************************)
Arrives(s) ==
    /\ slot'[s].pc # "idle" => slot'[s].exhausted = slot[s].exhausted
    /\ slot'[s].pc # "claimed"
    /\ slot'[s].pc = "begin" => ~slot[s].exhausted
    /\ slot'[s].pc = "read" => BeginAttempt(s)
    /\ slot'[s].pc \in GraphPhases =>
          /\ slot[s].pc \in GraphPhases \cup {"read"}
          /\ UNCHANGED inboxVars
          /\ slot[s].pc = "read" =>
                \/ graph[Cmd(s)].status = "running"
                \/ Kind[Cmd(s)] = "start"
                \/ Kind[Cmd(s)] = "resume" /\ ~NotStarted(Run(s))
    /\ slot'[s].pc \in {"observe", "cancelled", "defer"} => slot[s].pc \in GraphPhases
    /\ slot'[s].pc = "unstart" => /\ slot[s].pc = "read"
                                  /\ Kind[Cmd(s)] = "cancel"
                                  /\ NotStarted(Run(s))
                                  /\ UNCHANGED <<inboxVars, graphVars>>
    /\ slot'[s].pc = "sync" => MarkApplied(s)
    /\ slot'[s].pc = "mark" => SyncProducts(s)
    /\ slot'[s].pc = "reject" => \/ slot'[s].code = "reconciliation_required"
                                 \/ Kind[Cmd(s)] # "cancel"
                                 \/ ~NotStarted(Run(s))

\* Every phase of run_once is reached from the phases before it.
LEMMA SlotArrives ==
    ASSUME WorkerInv, NEW s \in Slots, SlotStep(s) \/ SlotFault(s)
    PROVE  Arrives(s)
  <1> USE DEF At
  <1>0. TypeOK /\ slot \in [Slots -> SlotState] /\ slot[s] \in SlotState
    BY DEF WorkerInv, TypeOK
  <1>1. ASSUME Finish(s) PROVE Arrives(s)
    <2>1. slot'[s].pc = "idle"
      BY <1>0, <1>1, FinishMoves
    <2> QED
      BY <2>1 DEF Arrives, GraphPhases
  <1>2. ASSUME NEW phase \in Phases, Goto(s, phase)
        PROVE slot'[s].pc = phase /\ slot'[s].exhausted = slot[s].exhausted
    BY <1>0, <1>2 DEF Goto, SlotState
  <1>3. ASSUME Raise(s) PROVE Arrives(s)
    <2>1. slot'[s].pc = "retry" /\ slot'[s].exhausted = slot[s].exhausted
      BY <1>2, <1>3 DEF Raise, Phases
    <2> QED
      BY <2>1 DEF Arrives, GraphPhases
  <1>4. ASSUME NEW ckpt, ToApply(s, ckpt) PROVE Arrives(s)
    <2>1. slot'[s].pc = "apply" /\ slot'[s].exhausted = slot[s].exhausted
      BY <1>0, <1>4 DEF ToApply, SlotState
    <2> QED
      BY <2>1 DEF Arrives, GraphPhases
  <1>5. ASSUME NEW code, ToReject(s, code),
               \/ code = "reconciliation_required"
               \/ Kind[Cmd(s)] # "cancel"
               \/ ~NotStarted(Run(s))
        PROVE Arrives(s)
    <2>1. /\ slot'[s].pc = "reject" /\ slot'[s].code = code
          /\ slot'[s].exhausted = slot[s].exhausted
      BY <1>0, <1>5 DEF ToReject, SlotState
    <2> QED
      BY <1>5, <2>1 DEF Arrives, GraphPhases
  <1>6. CASE AcquireThreadLock(s)
    <2> DEFINE phase == IF slot[s].exhausted THEN "exhausted" ELSE "begin"
    <2>1. slot'[s].pc = phase /\ slot'[s].exhausted = slot[s].exhausted
      BY <1>2, <1>6 DEF AcquireThreadLock, Phases, LockedPhases
    <2> QED
      BY <2>1 DEF Arrives, GraphPhases
  <1>7. CASE ThreadLockBusy(s)
    <2>1. slot'[s].pc = "retry" /\ slot'[s].exhausted = slot[s].exhausted
      BY <1>2, <1>7 DEF ThreadLockBusy, Phases
    <2> QED
      BY <2>1 DEF Arrives, GraphPhases
  <1>8. CASE BeginAttempt(s)
    <2>1. slot'[s].pc = "read" /\ slot'[s].exhausted = slot[s].exhausted
      BY <1>2, <1>8 DEF BeginAttempt, Phases, LockedPhases
    <2> QED
      BY <1>8, <2>1 DEF Arrives, GraphPhases
  <1>9. CASE \/ BeginAttemptFails(s) \/ MarkAppliedFails(s) \/ MarkRejectedFails(s)
             \/ TransientError(s)
    BY <1>3, <1>9 DEF BeginAttemptFails, MarkAppliedFails, MarkRejectedFails, TransientError
  <1>10. CASE ReconcileOwn(s)
    <2>1. CASE Goto(s, "guard") /\ OwnDisposition(Cmd(s)) = "runnable"
      <3>1. slot'[s].pc = "guard" /\ slot'[s].exhausted = slot[s].exhausted
        BY <1>2, <2>1 DEF Phases, LockedPhases
      <3>2. Cmd(s) \in Commands
        BY <1>10 DEF ReconcileOwn, WorkerInv, SlotOwnsCommand
      <3>3. graph[Cmd(s)].status = "running"
        BY <1>0, <2>1, <3>2, StatusFacts DEF OwnDisposition, TypeOK, GraphState
      <3> QED
        BY <1>10, <3>1, <3>3 DEF ReconcileOwn, Arrives, GraphPhases
    <2> QED
      BY <1>3, <1>4, <1>10, <2>1 DEF ReconcileOwn
  <1>11. CASE DecideCancel(s)
    <2>1. CASE NotStarted(Run(s)) /\ Goto(s, "unstart")
      <3>1. slot'[s].pc = "unstart" /\ slot'[s].exhausted = slot[s].exhausted
        BY <1>2, <2>1 DEF Phases, LockedPhases
      <3> QED
        BY <1>11, <2>1, <3>1 DEF DecideCancel, Arrives, GraphPhases
    <2> QED
      BY <1>3, <1>4, <1>5, <1>11, <2>1 DEF DecideCancel
  <1>12. CASE DecideStart(s)
    <2>1. slot'[s].pc = "guard" /\ slot'[s].exhausted = slot[s].exhausted
      BY <1>2, <1>12 DEF DecideStart, Phases, LockedPhases
    <2> QED
      BY <1>12, <2>1 DEF DecideStart, Arrives, GraphPhases
  <1>13. CASE DecideResume(s)
    <2>1. CASE \E code : ToReject(s, code)
      BY <1>5, <1>13, <2>1 DEF DecideResume
    <2>2. ASSUME NEW phase \in {"node", "guard"}, ~NotStarted(Run(s)),
                 slot' = [slot EXCEPT ![s].resuming = TRUE, ![s].pc = phase]
          PROVE Arrives(s)
      <3>1. slot'[s].pc = phase /\ slot'[s].exhausted = slot[s].exhausted
        BY <1>0, <2>2 DEF SlotState
      <3> QED
        BY <1>13, <2>2, <3>1 DEF DecideResume, Arrives, GraphPhases
    <2> QED
      BY <1>13, <2>1, <2>2 DEF DecideResume
  <1>14. CASE ReconcileExhausted(s)
    BY <1>4, <1>5, <1>14 DEF ReconcileExhausted
  <1>15. CASE ControlGuard(s) \/ NodeContinues(s) \/ NodeDecides(s) \/ GraphStops(s)
    <2>1. /\ slot'[s].pc \in {"node", "guard", "observe"}
          /\ slot'[s].exhausted = slot[s].exhausted
      BY <1>2, <1>15
      DEF ControlGuard, NodeContinues, NodeDecides, GraphStops, Phases, LockedPhases
    <2>2. slot[s].pc \in GraphPhases /\ UNCHANGED inboxVars
      BY <1>15 DEF ControlGuard, NodeContinues, NodeDecides, GraphStops, GraphPhases
    <2> QED
      BY <2>1, <2>2 DEF Arrives, GraphPhases
  <1>16. CASE InvocationCancelled(s)
    <2>1. slot'[s].pc = "cancelled" /\ slot'[s].exhausted = slot[s].exhausted
      BY <1>0, <1>16 DEF InvocationCancelled, SlotState
    <2> QED
      BY <1>16, <2>1 DEF InvocationCancelled, Arrives, GraphPhases
  <1>17. CASE WaitNodeResumes(s)
    <2>1. slot'[s].pc = "guard" /\ slot'[s].exhausted = slot[s].exhausted
      BY <1>0, <1>17 DEF WaitNodeResumes, SlotState
    <2> QED
      BY <1>17, <2>1 DEF WaitNodeResumes, Arrives, GraphPhases
  <1>18. CASE Observe(s) \/ RejectUnstarted(s)
    BY <1>4, <1>18 DEF Observe, RejectUnstarted
  <1>19. CASE MarkApplied(s)
    <2>1. slot'[s].pc = "sync" /\ slot'[s].exhausted = slot[s].exhausted
      BY <1>2, <1>19 DEF MarkApplied, Phases, LockedPhases
    <2> QED
      BY <1>19, <2>1 DEF Arrives, GraphPhases
  <1>20. CASE SyncProducts(s)
    <2>1. slot'[s].pc = "mark" /\ slot'[s].exhausted = slot[s].exhausted
      BY <1>2, <1>20 DEF SyncProducts, Phases, LockedPhases
    <2> QED
      BY <1>20, <2>1 DEF Arrives, GraphPhases
  <1>21. CASE \/ MarkRejected(s) \/ RejectCancelled(s) \/ ReleaseForRetry(s) \/ Defer(s)
              \/ MarkProductSynced(s) \/ SyncProductsFails(s)
    BY <1>1, <1>21
    DEF MarkRejected, RejectCancelled, ReleaseForRetry, Defer, MarkProductSynced,
        SyncProductsFails
  <1>22. CASE ToolOwnedElsewhere(s)
    <2>1. slot'[s].pc = "defer" /\ slot'[s].exhausted = slot[s].exhausted
      BY <1>2, <1>22 DEF ToolOwnedElsewhere, Phases
    <2> QED
      BY <1>22, <2>1 DEF ToolOwnedElsewhere, Arrives, GraphPhases
  <1> QED
    BY <1>6, <1>7, <1>8, <1>9, <1>10, <1>11, <1>12, <1>13, <1>14, <1>15, <1>16, <1>17, <1>18,
       <1>19, <1>20, <1>21, <1>22
    DEF SlotStep, SlotFault

\* A busy slot was left alone, has just claimed its Command, or took a step.
LEMMA SlotHistory ==
    ASSUME WorkerInv, [Next]_vars, NEW q \in Slots, slot'[q].pc # "idle"
    PROVE  \/ slot'[q] = slot[q]
           \/ \E c \in Commands :
                 /\ Claim(q, c)
                 /\ slot'[q].pc = "claimed"
                 /\ slot'[q].cmd = c
                 /\ slot'[q].exhausted <=> cmd[c].attempts >= MaxAttempts
           \/ /\ SlotStep(q) \/ SlotFault(q)
              /\ slot[q].pc # "idle"
              /\ slot'[q].cmd = slot[q].cmd
              /\ Arrives(q)
  <1>1. ASSUME NEW s \in Slots, SlotStep(s) \/ SlotFault(s)
        PROVE \/ slot'[q] = slot[q]
              \/ /\ SlotStep(q) \/ SlotFault(q)
                 /\ slot[q].pc # "idle"
                 /\ slot'[q].cmd = slot[q].cmd
                 /\ Arrives(q)
    <2>1. Moved(s) /\ slot[s].pc # "idle"
      BY <1>1, SlotStepShape DEF Shape, Entered, Stayed, Left, Outside, LockedPhases
    <2>2. Arrives(s)
      BY <1>1, SlotArrives
    <2>3. CASE q = s
      BY <1>1, <2>1, <2>2, <2>3 DEF Moved
    <2>4. CASE q # s
      BY <2>1, <2>4 DEF Moved
    <2> QED
      BY <2>3, <2>4
  <1>2. ASSUME NEW s \in Slots, NEW c \in Commands, Claim(s, c)
        PROVE \/ slot'[q] = slot[q]
              \/ /\ Claim(q, c)
                 /\ slot'[q].pc = "claimed"
                 /\ slot'[q].cmd = c
                 /\ slot'[q].exhausted <=> cmd[c].attempts >= MaxAttempts
    <2> DEFINE spent == cmd[c].attempts >= MaxAttempts
    <2> DEFINE row == [IdleSlot EXCEPT !.pc = "claimed", !.cmd = c, !.exhausted = spent]
    <2>1. slot' = [slot EXCEPT ![s] = row]
      BY <1>2 DEF Claim
    <2>2. row.pc = "claimed" /\ row.cmd = c /\ (row.exhausted <=> spent)
      BY DEF IdleSlot
    <2> HIDE DEF row, spent
    <2>3. slot'[q] = slot[q] \/ (q = s /\ slot'[q] = row)
      BY <2>1 DEF WorkerInv, TypeOK
    <2> QED
      BY <1>2, <2>2, <2>3 DEF spent
  <1>3. ASSUME NEW p \in Claimants, Crash(p) PROVE slot'[q] = slot[q]
    BY <1>3 DEF Crash, IdleSlot
  <1>4. ASSUME Background PROVE slot'[q] = slot[q]
    BY <1>4, BackgroundStep
  <1>5. ASSUME UNCHANGED vars PROVE slot'[q] = slot[q]
    BY <1>5 DEF vars
  <1> QED
    BY <1>1, <1>2, <1>3, <1>4, <1>5, NextCases

-----------------------------------------------------------------------------
(***************************************************************************)
(* Who changes the row of a Command, and who changes a lane.               *)
(***************************************************************************)
AppliedBy(s, c) ==
    /\ At(s, "apply") /\ Cmd(s) = c
    /\ cmd[c].status = "claimed"
    /\ cmd'[c].status = "applied"
    /\ cmd'[c].error = "product_sync_pending"

RejectedBy(s, c) ==
    /\ slot[s].pc \in {"reject", "cancelled"} /\ Cmd(s) = c
    /\ cmd[c].status = "claimed"
    /\ cmd'[c].status = "rejected"
    /\ cmd'[c].error = slot[s].code
    /\ Kind[c] = "start" => ~laneHeld'[RunOf[c]]

UnstartedBy(s, c) ==
    /\ RejectUnstarted(s)
    /\ c \in UnstartedStarts(Cmd(s))
    /\ cmd'[c].status = "rejected"

SyncedBySomeone(c) ==
    /\ cmd[c].status = "applied"
    /\ cmd'[c].status = "applied"
    /\ \/ \E s \in Slots : At(s, "mark") /\ Cmd(s) = c
       \/ \E p \in Claimants : reconciling[p] = c

RowChange(c) ==
    \/ cmd'[c] = cmd[c]
    \/ Intake(c) /\ cmd[c].status = "absent" /\ cmd'[c].status = "pending"
    \/ cmd[c].status \in {"pending", "claimed"} /\ cmd'[c].status \in {"pending", "claimed"}
    \/ \E s \in Slots : AppliedBy(s, c) \/ RejectedBy(s, c) \/ UnstartedBy(s, c)
    \/ SyncedBySomeone(c)

\* What a slot does to the row of a Command.
LEMMA SlotRowChange ==
    ASSUME WorkerInv, NEW s \in Slots, SlotStep(s) \/ SlotFault(s) \/ Heartbeat(s),
           NEW c \in Commands
    PROVE  RowChange(c)
  <1>0. /\ cmd \in [Commands -> CommandRow] /\ cmd[c] \in CommandRow
        /\ laneHeld \in [Runs -> BOOLEAN]
        /\ RunOf[c] \in Runs
        /\ slot[s].pc # "idle" => Cmd(s) \in Commands
    BY CommandsAssumption DEF WorkerInv, TypeOK, InboxTypeOK, SlotOwnsCommand, At
  <1>1. ASSUME UNCHANGED cmd PROVE RowChange(c)
    BY <1>1 DEF RowChange
  <1>2. CASE \/ Heartbeat(s) \/ BeginAttempt(s)
             \/ ReleaseForRetry(s) /\ RequireClaimant(Cmd(s), Me(s))
             \/ Defer(s) /\ DeferWithoutAttempt(Cmd(s), Me(s))
    <2>1. Cmd(s) \in Commands
      BY <1>0, <1>2 DEF Heartbeat, BeginAttempt, ReleaseForRetry, Defer, At
    <2>2. cmd[Cmd(s)].status = "claimed"
      BY <1>2
      DEF Heartbeat, BeginAttempt, RenewCommandClaim, BeginCommandAttempt,
          DeferWithoutAttempt, RequireClaimant
    <2>3. \/ RenewCommandClaim(Cmd(s), Me(s)) \/ BeginCommandAttempt(Cmd(s), Me(s))
          \/ ReleaseCommandClaim(Cmd(s), Me(s)) \/ DeferWithoutAttempt(Cmd(s), Me(s))
      BY <1>2 DEF Heartbeat, BeginAttempt, ReleaseForRetry
    <2>4. CASE Cmd(s) # c
      <3>1. cmd'[c] = cmd[c]
        BY <1>0, <2>3, <2>4
        DEF RenewCommandClaim, BeginCommandAttempt, ReleaseCommandClaim, DeferWithoutAttempt
      <3> QED
        BY <3>1 DEF RowChange
    <2>5. CASE Cmd(s) = c
      <3>1. cmd'[c].status \in {"pending", "claimed"}
        BY <1>0, <2>2, <2>3, <2>5
        DEF RenewCommandClaim, BeginCommandAttempt, ReleaseCommandClaim, DeferWithoutAttempt,
            CommandRow
      <3> QED
        BY <2>2, <2>5, <3>1 DEF RowChange
    <2> QED
      BY <2>4, <2>5
  <1>3. CASE RejectUnstarted(s)
    <2>1. cmd'[c] = IF c \in UnstartedStarts(Cmd(s))
                    THEN [cmd[c] EXCEPT !.status = "rejected", !.claimant = NoClaimant,
                                        !.live = FALSE, !.checkpoint = NoCheckpoint,
                                        !.error = "cancelled_before_start"]
                    ELSE cmd[c]
      BY <1>3 DEF RejectUnstarted, RejectUnstartedRunForCancel
    <2> QED
      BY <1>0, <1>3, <2>1 DEF RowChange, UnstartedBy, CommandRow
  <1>4. CASE MarkApplied(s)
    <2>1. At(s, "apply") /\ Cmd(s) \in Commands
      BY <1>0, <1>4 DEF MarkApplied, At
    <2>2. CASE UNCHANGED cmd
      BY <1>1, <2>2
    <2>3. CASE ~UNCHANGED cmd
      <3>1. /\ cmd[Cmd(s)].status = "claimed"
            /\ cmd' = [cmd EXCEPT ![Cmd(s)] =
                          [cmd[Cmd(s)] EXCEPT !.status = "applied", !.live = FALSE,
                                              !.checkpoint = slot[s].checkpoint,
                                              !.error = "product_sync_pending"]]
        BY <1>0, <1>4, <2>1, <2>3 DEF MarkApplied, MarkCommandApplied, RequireClaimant
      <3> QED
        BY <1>0, <2>1, <3>1 DEF RowChange, AppliedBy, CommandRow
    <2> QED
      BY <2>2, <2>3
  <1>5. CASE MarkRejected(s) \/ RejectCancelled(s)
    <2>1. slot[s].pc \in {"reject", "cancelled"} /\ Cmd(s) \in Commands
      BY <1>0, <1>5 DEF MarkRejected, RejectCancelled, At
    <2>2. CASE UNCHANGED cmd
      BY <1>1, <2>2
    <2>3. CASE ~UNCHANGED cmd
      <3>0. MarkCommandRejected(Cmd(s), Me(s), slot[s].code)
        BY <1>5, <2>3 DEF MarkRejected, RejectCancelled, inboxVars
      <3>1. /\ cmd[Cmd(s)].status = "claimed"
            /\ cmd' = [cmd EXCEPT ![Cmd(s)] =
                          [cmd[Cmd(s)] EXCEPT !.status = "rejected", !.live = FALSE,
                                              !.checkpoint = NoCheckpoint,
                                              !.error = slot[s].code]]
        BY <1>0, <2>1, <2>3, <3>0 DEF MarkCommandRejected, RequireClaimant
      <3>2. Kind[Cmd(s)] = "start" => laneHeld' = [laneHeld EXCEPT ![RunOf[Cmd(s)]] = FALSE]
        BY <3>0 DEF MarkCommandRejected
      <3>3. CASE Cmd(s) # c
        BY <1>0, <3>1, <3>3 DEF RowChange
      <3>4. CASE Cmd(s) = c
        <4>1. cmd'[c].status = "rejected" /\ cmd'[c].error = slot[s].code
          BY <1>0, <3>1, <3>4 DEF CommandRow
        <4>2. Kind[c] = "start" => ~laneHeld'[RunOf[c]]
          BY <1>0, <3>2, <3>4
        <4>3. RejectedBy(s, c)
          BY <2>1, <3>1, <3>4, <4>1, <4>2 DEF RejectedBy
        <4> QED
          BY <4>3 DEF RowChange
      <3> QED
        BY <3>3, <3>4
    <2> QED
      BY <2>2, <2>3
  <1>6. CASE MarkProductSynced(s)
    <2>1. At(s, "mark") /\ Cmd(s) \in Commands
      BY <1>0, <1>6 DEF MarkProductSynced, At
    <2>2. /\ cmd[Cmd(s)].status = "applied"
          /\ cmd' = [cmd EXCEPT ![Cmd(s)] = [cmd[Cmd(s)] EXCEPT !.error = "none"]]
      BY <1>0, <1>6, <2>1 DEF MarkProductSynced, MarkCommandProductSynced
    <2> QED
      BY <1>0, <2>1, <2>2 DEF RowChange, SyncedBySomeone, CommandRow
  <1>7. CASE \/ ReleaseForRetry(s) /\ ~RequireClaimant(Cmd(s), Me(s))
             \/ Defer(s) /\ ~DeferWithoutAttempt(Cmd(s), Me(s))
    BY <1>1, <1>7 DEF ReleaseForRetry, Defer, inboxVars
  <1>8. CASE \/ AcquireThreadLock(s) \/ ThreadLockBusy(s) \/ BeginAttemptFails(s)
             \/ ReconcileOwn(s) \/ DecideCancel(s) \/ DecideStart(s) \/ DecideResume(s)
             \/ ReconcileExhausted(s) \/ ControlGuard(s) \/ InvocationCancelled(s)
             \/ WaitNodeResumes(s) \/ NodeContinues(s) \/ NodeDecides(s) \/ GraphStops(s)
             \/ Observe(s) \/ MarkAppliedFails(s) \/ MarkRejectedFails(s) \/ SyncProducts(s)
             \/ SyncProductsFails(s) \/ TransientError(s) \/ ToolOwnedElsewhere(s)
    BY <1>1, <1>8
    DEF AcquireThreadLock, ThreadLockBusy, BeginAttemptFails, ReconcileOwn, DecideCancel,
        DecideStart, DecideResume, ReconcileExhausted, ControlGuard, InvocationCancelled,
        WaitNodeResumes, NodeContinues, NodeDecides, GraphStops, Observe, MarkAppliedFails,
        MarkRejectedFails, SyncProducts, SyncProductsFails, TransientError,
        ToolOwnedElsewhere, inboxVars
  <1> QED
    BY <1>2, <1>3, <1>4, <1>5, <1>6, <1>7, <1>8 DEF SlotStep, SlotFault

\* What any step does to the row of a Command.
LEMMA RowChanges ==
    ASSUME WorkerInv, [Next]_vars, NEW c \in Commands
    PROVE  RowChange(c)
  <1>0. cmd \in [Commands -> CommandRow] /\ cmd[c] \in CommandRow
    BY DEF WorkerInv, TypeOK, InboxTypeOK
  <1>1. ASSUME UNCHANGED cmd PROVE RowChange(c)
    BY <1>1 DEF RowChange
  <1>2. ASSUME NEW s \in Slots, SlotStep(s) \/ SlotFault(s) \/ Heartbeat(s) PROVE RowChange(c)
    BY <1>2, SlotRowChange
  <1>3. ASSUME NEW d \in Commands, Intake(d) PROVE RowChange(c)
    <2>1. /\ cmd[d].status = "absent"
          /\ cmd' = [cmd EXCEPT ![d] = [cmd[d] EXCEPT !.status = "pending"]]
      BY <1>0, <1>3 DEF Intake, RegisterRunWithStart, EnqueueCommand
    <2> QED
      BY <1>0, <1>3, <2>1 DEF RowChange, CommandRow
  <1>4. ASSUME NEW d \in Commands, OrphanExpires(d) \/ HeartbeatStalls(d) PROVE RowChange(c)
    <2>1. /\ cmd[d].status = "claimed"
          /\ cmd' = [cmd EXCEPT ![d] = [cmd[d] EXCEPT !.live = FALSE]]
      BY <1>0, <1>4 DEF OrphanExpires, HeartbeatStalls, ExpireClaim, ClaimedLive
    <2> QED
      BY <1>0, <2>1 DEF RowChange, CommandRow
  <1>5. ASSUME NEW d \in Commands, NEW s \in Slots, Claim(s, d) PROVE RowChange(c)
    <2>1. /\ cmd[d].status \in {"pending", "claimed"}
          /\ cmd' = [cmd EXCEPT ![d] = [cmd[d] EXCEPT !.status = "claimed", !.claimant = Me(s),
                                                      !.live = TRUE, !.error = "none"]]
      BY <1>0, <1>5 DEF Claim, ClaimNextCommand, Claimable, Reclaimable
    <2> QED
      BY <1>0, <2>1 DEF RowChange, CommandRow
  <1>6. ASSUME NEW p \in Claimants, ReconcilerMarksSynced(p) PROVE RowChange(c)
    <2>1. /\ reconciling[p] \in Commands
          /\ cmd[reconciling[p]].status = "applied"
          /\ cmd' = [cmd EXCEPT ![reconciling[p]] =
                        [cmd[reconciling[p]] EXCEPT !.error = "none"]]
      BY <1>0, <1>6 DEF ReconcilerMarksSynced, MarkCommandProductSynced, WorkerInv, TypeOK
    <2> QED
      BY <1>0, <2>1 DEF RowChange, SyncedBySomeone, CommandRow
  <1>7. ASSUME NEW p \in Claimants,
               \/ Crash(p) \/ Restart(p)
               \/ \E d \in Commands : ReconcileProducts(p, d) \/ ReconcileProductsFails(p, d)
        PROVE RowChange(c)
    BY <1>1, <1>7
    DEF Crash, Restart, ReleaseRejectedStartLanes, ReconcileProducts, ReconcileProductsFails,
        inboxVars
  <1>8. CASE UNCHANGED vars
    BY <1>1, <1>8 DEF vars
  <1> QED
    BY <1>2, <1>3, <1>4, <1>5, <1>6, <1>7, <1>8 DEF Next

\* What a step does to a lane: the claim of a start takes it; rejecting the
\* start, the products of a Command that ends the Run and the startup repair
\* give it back.
LaneChange(r) ==
    \/ laneHeld'[r] = laneHeld[r]
    \/ \E s \in Slots, c \in Commands :
          Claim(s, c) /\ RunOf[c] = r /\ Kind[c] = "start" /\ laneHeld'[r]
    \/ /\ ~laneHeld'[r]
       /\ \/ \E c \in Commands : RunOf[c] = r /\ Kind[c] = "start" /\ cmd'[c].status = "rejected"
          \/ \E c \in Commands : /\ RunOf[c] = r /\ EndsRun(c)
                                 /\ UNCHANGED <<cmd, graphVars>>
                                 /\ \/ AwaitsProducts(c)
                                    \/ \E s \in Slots : At(s, "sync") /\ Cmd(s) = c
          \/ RejectedStart(r) /\ UNCHANGED cmd

\* A handler of products frees the lane of the Run it ends, and no other.
LEMMA FreedLaneChange ==
    ASSUME laneHeld \in [Runs -> BOOLEAN], NEW c \in Commands, NEW done \in BOOLEAN,
           laneHeld' = FreedLanes(c, done), NEW r \in Runs
    PROVE  laneHeld'[r] = laneHeld[r] \/ (RunOf[c] = r /\ EndsRun(c) /\ ~laneHeld'[r])
  BY DEF FreedLanes

\* What any step does to a lane.
LEMMA LaneChanges ==
    ASSUME WorkerInv, [Next]_vars, NEW r \in Runs
    PROVE  LaneChange(r)
  <1>0. /\ cmd \in [Commands -> CommandRow]
        /\ laneHeld \in [Runs -> BOOLEAN]
    BY DEF WorkerInv, TypeOK, InboxTypeOK
  <1>1. ASSUME UNCHANGED laneHeld PROVE LaneChange(r)
    BY <1>1 DEF LaneChange
  <1>2. ASSUME NEW s \in Slots, SlotStep(s) \/ SlotFault(s) \/ Heartbeat(s) PROVE LaneChange(r)
    <2>0. slot[s].pc # "idle" => Cmd(s) \in Commands
      BY DEF WorkerInv, SlotOwnsCommand, At
    <2>1. ASSUME slot[s].pc \in {"reject", "cancelled"},
                 MarkCommandRejected(Cmd(s), Me(s), slot[s].code)
          PROVE LaneChange(r)
      <3>1. Cmd(s) \in Commands /\ MarkCommandRejected(Cmd(s), Me(s), slot[s].code)
        BY <2>0, <2>1
      <3>2. cmd'[Cmd(s)].status = "rejected"
        BY <1>0, <3>1 DEF MarkCommandRejected, AlreadyRejected, CommandRow
      <3>3. CASE Kind[Cmd(s)] = "start" /\ RunOf[Cmd(s)] = r
        <4>1. ~laneHeld'[r]
          BY <1>0, <3>1, <3>3 DEF MarkCommandRejected
        <4> QED
          BY <3>1, <3>2, <3>3, <4>1 DEF LaneChange
      <3>4. CASE ~(Kind[Cmd(s)] = "start" /\ RunOf[Cmd(s)] = r)
        BY <1>0, <3>1, <3>4 DEF LaneChange, MarkCommandRejected
      <3> QED
        BY <3>3, <3>4
    <2>2. CASE SyncProducts(s) \/ SyncProductsFails(s)
      <3>1. At(s, "sync") /\ Cmd(s) \in Commands /\ UNCHANGED <<cmd, graphVars>>
        BY <2>0, <2>2 DEF SyncProducts, SyncProductsFails, At
      <3>2. \E done \in BOOLEAN : laneHeld' = FreedLanes(Cmd(s), done)
        BY <2>2 DEF SyncProducts, SyncProductsFails, PartialProducts
      <3>3. laneHeld'[r] = laneHeld[r] \/ (RunOf[Cmd(s)] = r /\ EndsRun(Cmd(s)) /\ ~laneHeld'[r])
        BY <1>0, <3>1, <3>2, FreedLaneChange
      <3> QED
        BY <3>1, <3>3 DEF LaneChange
    <2>3. CASE MarkRejected(s) \/ RejectCancelled(s)
      BY <1>1, <2>1, <2>3 DEF MarkRejected, RejectCancelled, At, inboxVars
    <2>4. CASE \/ Heartbeat(s) \/ BeginAttempt(s) \/ RejectUnstarted(s) \/ MarkProductSynced(s)
               \/ ReleaseForRetry(s) \/ Defer(s) \/ MarkApplied(s)
      BY <1>1, <2>4
      DEF Heartbeat, BeginAttempt, RejectUnstarted, MarkProductSynced, ReleaseForRetry, Defer,
          MarkApplied, RenewCommandClaim, BeginCommandAttempt, RejectUnstartedRunForCancel,
          MarkCommandProductSynced, ReleaseCommandClaim, DeferWithoutAttempt,
          MarkCommandApplied, inboxVars
    <2>5. CASE \/ AcquireThreadLock(s) \/ ThreadLockBusy(s) \/ BeginAttemptFails(s)
               \/ ReconcileOwn(s) \/ DecideCancel(s) \/ DecideStart(s) \/ DecideResume(s)
               \/ ReconcileExhausted(s) \/ ControlGuard(s) \/ InvocationCancelled(s)
               \/ WaitNodeResumes(s) \/ NodeContinues(s) \/ NodeDecides(s) \/ GraphStops(s)
               \/ Observe(s) \/ MarkAppliedFails(s) \/ MarkRejectedFails(s)
               \/ TransientError(s) \/ ToolOwnedElsewhere(s)
      BY <1>1, <2>5
      DEF AcquireThreadLock, ThreadLockBusy, BeginAttemptFails, ReconcileOwn, DecideCancel,
          DecideStart, DecideResume, ReconcileExhausted, ControlGuard, InvocationCancelled,
          WaitNodeResumes, NodeContinues, NodeDecides, GraphStops, Observe, MarkAppliedFails,
          MarkRejectedFails, TransientError, ToolOwnedElsewhere, inboxVars
    <2> QED
      BY <1>2, <2>2, <2>3, <2>4, <2>5 DEF SlotStep, SlotFault
  <1>3. ASSUME NEW d \in Commands, Intake(d) \/ OrphanExpires(d) \/ HeartbeatStalls(d)
        PROVE LaneChange(r)
    BY <1>1, <1>3
    DEF Intake, OrphanExpires, HeartbeatStalls, RegisterRunWithStart, EnqueueCommand, ExpireClaim
  <1>4. ASSUME NEW d \in Commands, NEW s \in Slots, Claim(s, d) PROVE LaneChange(r)
    <2>1. laneHeld' = IF AcquiresLane(d) THEN [laneHeld EXCEPT ![RunOf[d]] = TRUE] ELSE laneHeld
      BY <1>4 DEF Claim, ClaimNextCommand
    <2>2. CASE AcquiresLane(d) /\ RunOf[d] = r
      BY <1>0, <1>4, <2>1, <2>2 DEF LaneChange, AcquiresLane
    <2>3. CASE ~(AcquiresLane(d) /\ RunOf[d] = r)
      BY <1>0, <2>1, <2>3 DEF LaneChange
    <2> QED
      BY <2>2, <2>3
  <1>5. ASSUME NEW p \in Claimants, ReconcilerMarksSynced(p) \/ Crash(p) PROVE LaneChange(r)
    BY <1>1, <1>5 DEF ReconcilerMarksSynced, MarkCommandProductSynced, Crash, inboxVars
  <1>6. ASSUME NEW p \in Claimants, Restart(p) PROVE LaneChange(r)
    <2>1. laneHeld' = [q \in Runs |-> laneHeld[q] /\ ~RejectedStart(q)] /\ UNCHANGED cmd
      BY <1>6 DEF Restart, ReleaseRejectedStartLanes
    <2>2. CASE RejectedStart(r)
      BY <2>1, <2>2 DEF LaneChange
    <2>3. CASE ~RejectedStart(r)
      <3>1. laneHeld'[r] = (laneHeld[r] /\ ~RejectedStart(r))
        BY <2>1
      <3>2. laneHeld[r] \in BOOLEAN
        BY <1>0
      <3>3. laneHeld'[r] = laneHeld[r]
        BY <2>3, <3>1, <3>2
      <3> QED
        BY <3>3 DEF LaneChange
    <2> QED
      BY <2>2, <2>3
  <1>7. ASSUME NEW p \in Claimants, NEW d \in Commands,
               ReconcileProducts(p, d) \/ ReconcileProductsFails(p, d)
        PROVE LaneChange(r)
    <2>1. AwaitsProducts(d) /\ UNCHANGED <<cmd, graphVars>>
      BY <1>7 DEF ReconcileProducts, ReconcileProductsFails
    <2>2. \E done \in BOOLEAN : laneHeld' = FreedLanes(d, done)
      BY <1>7 DEF ReconcileProducts, ReconcileProductsFails, PartialProducts
    <2>3. laneHeld'[r] = laneHeld[r] \/ (RunOf[d] = r /\ EndsRun(d) /\ ~laneHeld'[r])
      BY <1>0, <2>2, FreedLaneChange
    <2> QED
      BY <2>1, <2>3 DEF LaneChange
  <1>8. CASE UNCHANGED vars
    BY <1>1, <1>8 DEF vars
  <1> QED
    BY <1>2, <1>3, <1>4, <1>5, <1>6, <1>7, <1>8 DEF Next
-----------------------------------------------------------------------------
(***************************************************************************)
(* Order.                                                                  *)
(***************************************************************************)

\* A Run has exactly one start, and it precedes the other Commands.
LEMMA OneStart ==
    ASSUME NEW p \in Commands, Kind[p] = "start", NEW c \in Commands, RunOf[c] = RunOf[p], c # p
    PROVE  p < c /\ Kind[c] # "start"
  <1>1. RunOf[p] \in Runs
    BY CommandsAssumption
  <1>2. PICK s \in Commands :
            /\ RunOf[s] = RunOf[p]
            /\ Kind[s] = "start"
            /\ \A d \in Commands : RunOf[d] = RunOf[p] /\ d # s => s < d /\ Kind[d] # "start"
    BY <1>1, StartAssumption
  <1> QED
    BY <1>2

\* A settled Command stays settled, as it was.
LEMMA SettledStays ==
    ASSUME WorkerInv, [Next]_vars, NEW c \in Commands, Settled(c)
    PROVE  cmd'[c].status = cmd[c].status /\ Settled(c)'
  <1>1. cmd'[c].status = cmd[c].status
    BY WorkerStepIsInboxStep, SettledRowKept DEF WorkerInv, TypeOK
  <1> QED
    BY <1>1 DEF Settled

\* The status of a Command that has been enqueued is one of the other four.
LEMMA EnqueuedStatus ==
    ASSUME WorkerInv, NEW c \in Commands, cmd[c].status # "absent"
    PROVE  Unfinished(c) \/ Settled(c)
  BY DEF WorkerInv, TypeOK, InboxTypeOK, CommandRow, Unfinished, Settled

\* The start stays first.
LEMMA StartFirstStep ==
    ASSUME WorkerInv, StartFirst, [Next]_vars
    PROVE  StartFirst'
  <1> SUFFICES ASSUME NEW c \in Commands, NEW p \in Commands, RunOf[p] = RunOf[c],
                      Kind[p] = "start", cmd'[c].status # "absent"
               PROVE cmd'[p].status # "absent"
    BY DEF StartFirst
  <1>1. ASSUME cmd[p].status # "absent" PROVE cmd'[p].status # "absent"
    BY <1>1, RowChanges
    DEF RowChange, AppliedBy, RejectedBy, UnstartedBy, SyncedBySomeone
  <1>2. CASE cmd[c].status # "absent"
    BY <1>1, <1>2 DEF StartFirst
  <1>3. CASE cmd[c].status = "absent"
    <2>1. Intake(c)
      BY <1>3, RowChanges
      DEF RowChange, AppliedBy, RejectedBy, UnstartedBy, SyncedBySomeone, UnstartedStarts,
          Reclaimable
    <2>2. CASE Kind[c] = "start"
      <3>1. c = p
        BY <2>2, OneStart
      <3> QED
        BY <3>1
    <2>3. CASE Kind[c] # "start"
      <3>1. Registered(RunOf[c])
        BY <2>1, <2>3 DEF Intake, RegisterRunWithStart, EnqueueCommand
      <3>2. PICK s \in Commands :
                RunOf[s] = RunOf[c] /\ Kind[s] = "start" /\ cmd[s].status # "absent"
        BY <3>1 DEF Registered
      <3>3. s = p
        BY <3>2, OneStart
      <3> QED
        BY <1>1, <3>2, <3>3
    <2> QED
      BY <2>2, <2>3
  <1> QED
    BY <1>2, <1>3

\* A resume is claimed only after the start of its Run.
LEMMA ResumeAfterStartStep ==
    ASSUME WorkerInv, OrderInv, [Next]_vars
    PROVE  ResumeAfterStart'
  <1> SUFFICES ASSUME NEW q \in Slots, NEW p \in Commands, slot'[q].pc # "idle",
                      Kind[slot'[q].cmd] = "resume", RunOf[p] = RunOf[slot'[q].cmd],
                      Kind[p] = "start"
               PROVE Settled(p)'
    BY DEF ResumeAfterStart, At, Run, Cmd
  <1>1. ASSUME slot[q].pc # "idle", slot'[q].cmd = slot[q].cmd PROVE Settled(p)'
    <2>1. Settled(p)
      BY <1>1 DEF OrderInv, ResumeAfterStart, At, Run, Cmd
    <2> QED
      BY <2>1, SettledStays
  <1>2. ASSUME NEW c \in Commands, Claim(q, c), slot'[q].cmd = c PROVE Settled(p)'
    <2>1. ~EarlierUnfinished(c) /\ cmd[c].status # "absent"
      BY <1>2 DEF Claim, ClaimNextCommand, Claimable, Reclaimable
    <2>2. p < c
      BY <1>2, OneStart
    <2>3. ~Unfinished(p)
      BY <1>2, <2>1, <2>2 DEF EarlierUnfinished
    <2>4. cmd[p].status # "absent"
      BY <1>2, <2>1 DEF OrderInv, StartFirst
    <2>5. Settled(p)
      BY <2>3, <2>4, EnqueuedStatus
    <2> QED
      BY <2>5, SettledStays
  <1> QED
    BY <1>1, <1>2, SlotHistory

\* The order invariant holds of every behaviour of the worker.
THEOREM OrderInvariant == Spec => [](WorkerInv /\ CheckpointInv /\ OrderInv)
  <1>1. Init => OrderInv
    BY DEF Init, InboxInit, AbsentRow, IdleSlot, OrderInv, StartFirst, ResumeAfterStart, At
  <1>2. WorkerInv /\ OrderInv /\ [Next]_vars => OrderInv'
    BY StartFirstStep, ResumeAfterStartStep DEF OrderInv
  <1> QED
    BY <1>1, <1>2, CheckpointInvariant, PTL DEF Spec

\* No resume runs the Graph before the start of its Run is settled, whatever
\* workers die and whatever order the Commands are seen in.
THEOREM StartsSettleBeforeResumes == Spec => []StartSettlesBeforeResume
  <1>1. OrderInv => StartSettlesBeforeResume
    BY DEF OrderInv, ResumeAfterStart, StartSettlesBeforeResume, At, GraphPhases
  <1> QED
    BY <1>1, OrderInvariant, PTL

-----------------------------------------------------------------------------
(***************************************************************************)
(* Lanes.  The phases first: a cancel never runs the Graph, products are   *)
(* those of applied Commands, only Commands with attempts left execute, a  *)
(* terminal checkpoint is the latest of its Run, and what is not a start   *)
(* executes on a Run that has begun.                                       *)
(***************************************************************************)
CancelPhases ==
    /\ \A c \in Commands : Kind[c] = "cancel" => graph[c].status = "none"
    /\ \A s \in Slots : ~At(s, "idle") /\ Kind[Cmd(s)] = "cancel" =>
          slot[s].pc \notin {"guard", "node", "observe", "cancelled", "defer"}

ProductPhases ==
    /\ \A s \in Slots : slot[s].pc \in {"sync", "mark"} => cmd[Cmd(s)].status = "applied"
    /\ \A p \in Claimants : reconciling[p] # NoCommand => cmd[reconciling[p]].status = "applied"

WithinAttempts ==
    \A s \in Slots : slot[s].pc \in {"begin", "read", "guard", "node"} => ~slot[s].exhausted

TerminalIsLatest ==
    \A c \in Commands : graph[c].status = "terminal" => latest[RunOf[c]] = c

ResumesStarted ==
    \A s \in Slots : slot[s].pc \in GraphPhases /\ Kind[Cmd(s)] # "start" => ~NotStarted(Run(s))

PhaseInv == CancelPhases /\ ProductPhases /\ WithinAttempts /\ TerminalIsLatest /\ ResumesStarted

(***************************************************************************)
(* A Run that has begun, or whose start some slot is about to begin, keeps *)
(* its lane until it is abandoned or over.                                 *)
(***************************************************************************)
Beginning(s) == ~At(s, "idle") /\ Kind[Cmd(s)] = "start" /\ ~slot[s].exhausted

Begun(r) == ~NotStarted(r) \/ \E s \in Slots : Beginning(s) /\ Run(s) = r

LaneKept ==
    \A r \in Runs : LaneOf[r] # NoLane /\ Begun(r) /\ ~Abandoned(r) /\ ~Ended(r) => laneHeld[r]

\* A Run that has begun does not become unbegun; only a slot in a Graph phase
\* begins one.
LEMMA StartedStays ==
    ASSUME WorkerInv, [Next]_vars, NEW r \in Runs
    PROVE  /\ ~NotStarted(r) => ~NotStarted(r)'
           /\ ~NotStarted(r)' =>
                 \/ ~NotStarted(r)
                 \/ \E s \in Slots : slot[s].pc \in GraphPhases /\ Run(s) = r
  <1>1. CASE UNCHANGED graphVars
    BY <1>1 DEF graphVars, NotStarted
  <1>2. ASSUME NEW s \in Slots, Committed(s)
        PROVE /\ ~NotStarted(r) => ~NotStarted(r)'
              /\ ~NotStarted(r)' => \/ ~NotStarted(r)
                                    \/ slot[s].pc \in GraphPhases /\ Run(s) = r
    <2>1. slot[s].pc \in GraphPhases
      BY <1>2 DEF Committed
    <2>2. Cmd(s) \in Commands /\ Run(s) \in Runs
      BY <2>1, GraphPhaseFacts
    <2>3. latest' = [latest EXCEPT ![Run(s)] = Cmd(s)] /\ Cmd(s) # NoCommand
      BY <1>2, <2>2, CommittedTypes, SlotsAssumption
    <2> QED
      BY <2>1, <2>2, <2>3 DEF NotStarted, WorkerInv, TypeOK
  <1> QED
    BY <1>1, <1>2, GraphChanges

\* The phases of a cancel.
LEMMA CancelPhasesStep ==
    ASSUME WorkerInv, PhaseInv, [Next]_vars
    PROVE  CancelPhases'
  <1>1. ASSUME NEW c \in Commands, Kind[c] = "cancel" PROVE graph'[c].status = "none"
    <2>1. graph[c].status = "none"
      BY <1>1 DEF PhaseInv, CancelPhases
    <2>2. CASE UNCHANGED graphVars
      BY <2>1, <2>2 DEF graphVars
    <2>3. ASSUME NEW s \in Slots, Committed(s) PROVE graph'[c].status = "none"
      <3>1. slot[s].pc \in GraphPhases
        BY <2>3 DEF Committed
      <3>2. Cmd(s) # c
        BY <1>1, <3>1 DEF PhaseInv, CancelPhases, GraphPhases, At
      <3> QED
        BY <2>1, <2>3, <3>2, CommittedTypes
    <2> QED
      BY <2>2, <2>3, GraphChanges
  <1>2. ASSUME NEW q \in Slots, slot'[q].pc \in {"guard", "node", "observe", "cancelled", "defer"}
        PROVE Kind[slot'[q].cmd] # "cancel"
    <2>1. CASE slot'[q] = slot[q]
      BY <1>2, <2>1 DEF PhaseInv, CancelPhases, At, Cmd
    <2>2. CASE slot[q].pc # "idle" /\ slot'[q].cmd = slot[q].cmd /\ Arrives(q)
      <3>1. slot[q].pc \in GraphPhases \cup {"read"}
        BY <1>2, <2>2 DEF Arrives, GraphPhases
      <3>2. CASE slot[q].pc \in GraphPhases
        BY <2>2, <3>2 DEF PhaseInv, CancelPhases, At, Cmd, GraphPhases
      <3>3. CASE slot[q].pc = "read"
        <4>1. \/ graph[Cmd(q)].status = "running" \/ Kind[Cmd(q)] = "start"
              \/ Kind[Cmd(q)] = "resume"
          BY <1>2, <2>2, <3>3 DEF Arrives, GraphPhases
        <4>2. Cmd(q) \in Commands
          BY <2>2 DEF WorkerInv, SlotOwnsCommand, At
        <4> QED
          BY <2>2, <4>1, <4>2 DEF PhaseInv, CancelPhases, Cmd
      <3> QED
        BY <3>1, <3>2, <3>3
    <2> QED
      BY <1>2, <2>1, <2>2, SlotHistory
  <1> QED
    BY <1>1, <1>2 DEF CancelPhases, At, Cmd

\* Products are synchronized for applied Commands only.
LEMMA ProductPhasesStep ==
    ASSUME WorkerInv, PhaseInv, [Next]_vars
    PROVE  ProductPhases'
  <1>0. cmd \in [Commands -> CommandRow]
    BY DEF WorkerInv, TypeOK, InboxTypeOK
  <1>1. ASSUME NEW c \in Commands, cmd[c].status = "applied" PROVE cmd'[c].status = "applied"
    BY <1>1, SettledStays DEF Settled
  <1>2. ASSUME NEW q \in Slots, slot'[q].pc \in {"sync", "mark"}
        PROVE cmd'[slot'[q].cmd].status = "applied"
    <2>1. CASE slot'[q] = slot[q]
      <3>1. cmd[Cmd(q)].status = "applied" /\ Cmd(q) \in Commands
        BY <1>2, <2>1 DEF PhaseInv, ProductPhases, WorkerInv, SlotOwnsCommand, At
      <3> QED
        BY <1>1, <2>1, <3>1 DEF Cmd
    <2>2. CASE slot[q].pc # "idle" /\ slot'[q].cmd = slot[q].cmd /\ Arrives(q)
      <3>1. Cmd(q) \in Commands
        BY <2>2 DEF WorkerInv, SlotOwnsCommand, At
      <3>2. CASE MarkApplied(q)
        <4>1. cmd'[Cmd(q)].status = "applied"
          BY <1>0, <3>1, <3>2 DEF MarkApplied, MarkCommandApplied, AlreadyApplied, CommandRow
        <4> QED
          BY <2>2, <4>1 DEF Cmd
      <3>3. CASE SyncProducts(q)
        <4>1. cmd[Cmd(q)].status = "applied"
          BY <3>3 DEF SyncProducts, At, PhaseInv, ProductPhases
        <4> QED
          BY <1>1, <2>2, <3>1, <4>1 DEF Cmd
      <3> QED
        BY <1>2, <2>2, <3>2, <3>3 DEF Arrives
    <2> QED
      BY <1>2, <2>1, <2>2, SlotHistory
  <1>3. ASSUME NEW p \in Claimants, reconciling'[p] # NoCommand
        PROVE cmd'[reconciling'[p]].status = "applied"
    <2>1. ASSUME reconciling'[p] = reconciling[p] PROVE cmd'[reconciling'[p]].status = "applied"
      <3>1. reconciling[p] \in Commands /\ cmd[reconciling[p]].status = "applied"
        BY <1>3, <2>1 DEF PhaseInv, ProductPhases, WorkerInv, TypeOK
      <3> QED
        BY <1>1, <2>1, <3>1
    <2>2. ASSUME NEW c \in Commands, NEW w \in Claimants, ReconcileProducts(w, c)
          PROVE \/ reconciling'[p] = reconciling[p]
                \/ reconciling'[p] = c /\ cmd'[c].status = "applied"
      BY <2>2 DEF ReconcileProducts, AwaitsProducts, WorkerInv, TypeOK
    <2>3. ASSUME NEW w \in Claimants, ReconcilerMarksSynced(w) \/ Crash(w)
          PROVE reconciling'[p] = reconciling[p]
      BY <1>3, <2>3 DEF ReconcilerMarksSynced, Crash, WorkerInv, TypeOK
    <2>4. ASSUME NEW s \in Slots, SlotStep(s) \/ SlotFault(s)
          PROVE reconciling'[p] = reconciling[p]
      BY <2>4, SlotStepRest DEF procVars
    <2>5. ASSUME UNCHANGED procVars \/ UNCHANGED reconciling PROVE reconciling'[p] = reconciling[p]
      BY <2>5 DEF procVars
    <2> QED
      BY <2>1, <2>2, <2>3, <2>4, <2>5
      DEF Next, Intake, OrphanExpires, HeartbeatStalls, Claim, ReconcileProductsFails,
          Heartbeat, Restart, vars, workerVars, procVars
  <1> QED
    BY <1>2, <1>3 DEF ProductPhases, Cmd

\* Only a Command with an attempt left begins.
LEMMA WithinAttemptsStep ==
    ASSUME WorkerInv, PhaseInv, [Next]_vars
    PROVE  WithinAttempts'
  <1> SUFFICES ASSUME NEW q \in Slots, slot'[q].pc \in {"begin", "read", "guard", "node"}
               PROVE ~slot'[q].exhausted
    BY DEF WithinAttempts
  <1>1. CASE slot'[q] = slot[q]
    BY <1>1 DEF PhaseInv, WithinAttempts
  <1>2. CASE Arrives(q)
    <2>1. slot'[q].exhausted = slot[q].exhausted
      BY <1>2 DEF Arrives
    <2>2. CASE slot'[q].pc = "begin"
      BY <1>2, <2>1, <2>2 DEF Arrives
    <2>3. CASE slot'[q].pc \in {"read", "guard", "node"}
      <3>1. slot[q].pc \in {"begin", "read", "guard", "node"}
        BY <1>2, <2>3 DEF Arrives, GraphPhases, BeginAttempt, At
      <3> QED
        BY <2>1, <3>1 DEF PhaseInv, WithinAttempts
    <2> QED
      BY <2>2, <2>3
  <1> QED
    BY <1>1, <1>2, SlotHistory

\* The end of a Run is its latest checkpoint.
LEMMA TerminalIsLatestStep ==
    ASSUME WorkerInv, CheckpointInv, PhaseInv, [Next]_vars
    PROVE  TerminalIsLatest'
  <1> SUFFICES ASSUME NEW c \in Commands, graph'[c].status = "terminal"
               PROVE latest'[RunOf[c]] = c
    BY DEF TerminalIsLatest
  <1>0. RunOf[c] \in Runs /\ c # NoCommand
    BY CommandsAssumption, SlotsAssumption
  <1>1. CASE graph[c].status = "terminal"
    <2>1. latest[RunOf[c]] = c
      BY <1>1 DEF PhaseInv, TerminalIsLatest
    <2>2. ~NotStarted(RunOf[c]) /\ LatestDisposition(RunOf[c]) = "terminal"
      BY <1>0, <1>1, <2>1 DEF NotStarted, LatestDisposition, OwnDisposition, Classify
    <2> QED
      BY <1>0, <2>1, <2>2, FinishedStep DEF CheckpointInv
  <1>2. CASE graph[c].status # "terminal"
    <2>1. ~UNCHANGED graphVars
      BY <1>2 DEF graphVars
    <2>2. PICK s \in Slots : Committed(s)
      BY <2>1, GraphChanges
    <2>3. Cmd(s) = c
      BY <1>2, <2>2, CommittedTypes
    <2>4. latest' = [latest EXCEPT ![RunOf[c]] = c]
      BY <2>2, <2>3, CommittedTypes DEF Run
    <2> QED
      BY <1>0, <2>4 DEF WorkerInv, TypeOK
  <1> QED
    BY <1>1, <1>2

\* Only a start begins a Run.
LEMMA ResumesStartedStep ==
    ASSUME WorkerInv, CheckpointInv, PhaseInv, [Next]_vars
    PROVE  ResumesStarted'
  <1> SUFFICES ASSUME NEW q \in Slots, slot'[q].pc \in GraphPhases, Kind[slot'[q].cmd] # "start"
               PROVE latest'[RunOf[slot'[q].cmd]] # NoCommand
    BY DEF ResumesStarted, Run, Cmd, NotStarted
  <1>1. ASSUME slot[q].pc # "idle", slot'[q].cmd = slot[q].cmd, ~NotStarted(Run(q))
        PROVE latest'[RunOf[slot'[q].cmd]] # NoCommand
    <2>1. Run(q) \in Runs
      BY <1>1, CommandsAssumption DEF WorkerInv, SlotOwnsCommand, At, Run
    <2> QED
      BY <1>1, <2>1, StartedStays DEF Run, Cmd, NotStarted
  <1>2. CASE slot'[q] = slot[q]
    BY <1>1, <1>2 DEF PhaseInv, ResumesStarted, GraphPhases, Cmd
  <1>3. CASE slot[q].pc # "idle" /\ slot'[q].cmd = slot[q].cmd /\ Arrives(q)
    <2>1. CASE slot[q].pc \in GraphPhases
      BY <1>1, <1>3, <2>1 DEF PhaseInv, ResumesStarted, Cmd
    <2>2. CASE slot[q].pc = "read"
      <3>1. graph[Cmd(q)].status = "running" \/ ~NotStarted(Run(q))
        BY <1>3, <2>2 DEF Arrives, Cmd
      <3>2. Cmd(q) \in Commands /\ Cmd(q) # NoCommand
        BY <1>3, SlotsAssumption DEF WorkerInv, SlotOwnsCommand, At
      <3>3. ~NotStarted(Run(q))
        BY <3>1, <3>2 DEF CheckpointInv, RunnableIsLatest, NotStarted, Run
      <3> QED
        BY <1>1, <1>3, <3>3
    <2> QED
      BY <1>3, <2>1, <2>2 DEF Arrives
  <1> QED
    BY <1>2, <1>3, SlotHistory DEF GraphPhases

\* The phases keep to their rules.
LEMMA PhaseInvStep ==
    ASSUME WorkerInv, CheckpointInv, PhaseInv, [Next]_vars
    PROVE  PhaseInv'
  BY CancelPhasesStep, ProductPhasesStep, WithinAttemptsStep, TerminalIsLatestStep,
     ResumesStartedStep
  DEF PhaseInv

\* The phases keep to their rules initially.
LEMMA PhaseInvInit == Init => PhaseInv
  <1> SUFFICES ASSUME Init PROVE PhaseInv
    OBVIOUS
  <1>1. \A s \in Slots : slot[s].pc = "idle"
    BY DEF Init, IdleSlot
  <1>2. \A c \in Commands : graph[c].status = "none"
    BY DEF Init
  <1>3. \A p \in Claimants : reconciling[p] = NoCommand
    BY DEF Init
  <1> QED
    BY <1>1, <1>2, <1>3
    DEF PhaseInv, CancelPhases, ProductPhases, WithinAttempts, TerminalIsLatest, ResumesStarted,
        At, GraphPhases

\* An abandoned Run stays abandoned and a Run that is over stays over.
LEMMA OverStays ==
    ASSUME WorkerInv, CheckpointInv, [Next]_vars, NEW r \in Runs
    PROVE  /\ RejectedStart(r) => RejectedStart(r)'
           /\ Abandoned(r) => Abandoned(r)'
           /\ Ended(r) => Ended(r)'
  <1>1. RejectedStart(r) => RejectedStart(r)'
    BY SettledStays DEF RejectedStart, Settled
  <1>2. Abandoned(r) => Abandoned(r)'
    BY <1>1, SettledStays DEF Abandoned, Settled
  <1>3. ASSUME Ended(r) PROVE Ended(r)'
    <2>1. latest'[r] = latest[r]
      BY <1>3, FinishedStep DEF Ended, CheckpointInv
    <2>2. latest[r] \in Commands /\ Stable(graph[latest[r]].status)
      BY <1>3 DEF Ended, NotStarted, LatestDisposition, OwnDisposition, Stable, WorkerInv, TypeOK
    <2>3. graph'[latest[r]] = graph[latest[r]]
      BY <2>2, StableStep DEF CheckpointInv
    <2> QED
      BY <1>3, <2>1, <2>3 DEF Ended, NotStarted, LatestDisposition, OwnDisposition
  <1> QED
    BY <1>1, <1>2, <1>3

\* A Command whose products end the Run ends it: a cancel abandons it, any
\* other Command has the terminal checkpoint, which is the latest.
LEMMA EndsRunEnds ==
    ASSUME WorkerInv, CheckpointInv, PhaseInv, NEW c \in Commands,
           cmd[c].status = "applied", EndsRun(c)
    PROVE  Abandoned(RunOf[c]) \/ Ended(RunOf[c])
  <1>1. CASE Kind[c] = "cancel"
    BY <1>1 DEF Abandoned
  <1>2. CASE Kind[c] # "cancel"
    <2>1. OwnCheckpoint(c) = <<c, "terminal">>
      BY <1>2 DEF EndsRun, CheckpointInv, AppliedAtOwnBoundary
    <2>2. OwnDisposition(c) = "terminal"
      BY <2>1 DEF OwnCheckpoint
    <2>3. graph[c].status = "terminal"
      BY <2>2, StatusFacts DEF OwnDisposition, WorkerInv, TypeOK, GraphState
    <2>4. latest[RunOf[c]] = c /\ c # NoCommand
      BY <2>3, SlotsAssumption DEF PhaseInv, TerminalIsLatest
    <2> QED
      BY <2>2, <2>4 DEF Ended, NotStarted, LatestDisposition
  <1> QED
    BY <1>1, <1>2

\* A lane is given back only for a Run that is abandoned or over.
LEMMA LaneReleased ==
    ASSUME WorkerInv, CheckpointInv, PhaseInv, [Next]_vars, NEW r \in Runs,
           laneHeld[r], ~laneHeld'[r]
    PROVE  Abandoned(r)' \/ Ended(r)'
  <1>0. laneHeld'[r] # laneHeld[r]
    OBVIOUS
  <1>1. ASSUME NEW c \in Commands, RunOf[c] = r, Kind[c] = "start", cmd'[c].status = "rejected"
        PROVE Abandoned(r)'
    BY <1>1 DEF Abandoned, RejectedStart
  <1>2. ASSUME NEW c \in Commands, RunOf[c] = r, EndsRun(c),
               \/ AwaitsProducts(c)
               \/ \E s \in Slots : At(s, "sync") /\ Cmd(s) = c
        PROVE Abandoned(r)' \/ Ended(r)'
    <2>1. cmd[c].status = "applied"
      BY <1>2 DEF AwaitsProducts, PhaseInv, ProductPhases, At
    <2>2. Abandoned(r) \/ Ended(r)
      BY <1>2, <2>1, EndsRunEnds
    <2> QED
      BY <2>2, OverStays
  <1>3. ASSUME RejectedStart(r) PROVE Abandoned(r)'
    BY <1>3, OverStays DEF Abandoned
  <1>4. LaneChange(r)
    BY LaneChanges
  <1> QED
    BY <1>0, <1>1, <1>2, <1>3, <1>4 DEF LaneChange

\* A slot about to begin a start has claimed it, with its lane.
LEMMA BeginningHolds ==
    ASSUME WorkerInv, [Next]_vars, NEW q \in Slots, slot'[q].pc # "idle",
           Kind[slot'[q].cmd] = "start", ~slot'[q].exhausted
    PROVE  \/ Beginning(q) /\ slot'[q].cmd = slot[q].cmd
           \/ LaneOf[RunOf[slot'[q].cmd]] = NoLane
           \/ laneHeld'[RunOf[slot'[q].cmd]]
  <1>1. CASE slot'[q] = slot[q]
    BY <1>1 DEF Beginning, At, Cmd
  <1>2. CASE slot[q].pc # "idle" /\ slot'[q].cmd = slot[q].cmd /\ Arrives(q)
    BY <1>2 DEF Beginning, At, Cmd, Arrives
  <1>3. ASSUME NEW c \in Commands, Claim(q, c), slot'[q].cmd = c,
               slot'[q].exhausted <=> cmd[c].attempts >= MaxAttempts,
               LaneOf[RunOf[c]] # NoLane
        PROVE laneHeld'[RunOf[c]]
    <2>1. cmd[c].attempts \in 0..MaxAttempts /\ MaxAttempts \in Nat
      BY WorkersAssumption DEF WorkerInv, TypeOK, InboxTypeOK, CommandRow
    <2>2. cmd[c].attempts < MaxAttempts
      BY <1>3, <2>1
    <2>3. AcquiresLane(c)
      BY <1>3, <2>2 DEF AcquiresLane
    <2>4. laneHeld' = [laneHeld EXCEPT ![RunOf[c]] = TRUE]
      BY <1>3, <2>3 DEF Claim, ClaimNextCommand
    <2> QED
      BY <2>4, CommandsAssumption DEF WorkerInv, TypeOK, InboxTypeOK
  <1> QED
    BY <1>1, <1>2, <1>3, SlotHistory

\* A Run that has begun keeps its lane.
LEMMA LaneKeptStep ==
    ASSUME WorkerInv, CheckpointInv, PhaseInv, LaneKept, [Next]_vars
    PROVE  LaneKept'
  <1> SUFFICES ASSUME NEW r \in Runs, LaneOf[r] # NoLane, Begun(r)', ~Abandoned(r)', ~Ended(r)',
                      ~laneHeld'[r]
               PROVE FALSE
    BY DEF LaneKept
  <1>1. ~Abandoned(r) /\ ~Ended(r)
    BY OverStays
  <1>2. Begun(r)
    <2>1. CASE ~NotStarted(r)'
      <3>1. CASE ~NotStarted(r)
        BY <3>1 DEF Begun
      <3>2. CASE NotStarted(r)
        <4>1. PICK s \in Slots : slot[s].pc \in GraphPhases /\ Run(s) = r
          BY <2>1, <3>2, StartedStays
        <4>2. Kind[Cmd(s)] = "start"
          BY <3>2, <4>1 DEF PhaseInv, ResumesStarted
        <4>3. ~slot[s].exhausted /\ slot[s].pc # "idle"
          BY <4>1 DEF PhaseInv, WithinAttempts, GraphPhases
        <4> QED
          BY <4>1, <4>2, <4>3 DEF Begun, Beginning, At
      <3> QED
        BY <3>1, <3>2
    <2>2. CASE \E s \in Slots : Beginning(s)' /\ Run(s)' = r
      <3>1. PICK s \in Slots : /\ slot'[s].pc # "idle" /\ Kind[slot'[s].cmd] = "start"
                               /\ ~slot'[s].exhausted /\ RunOf[slot'[s].cmd] = r
        BY <2>2 DEF Beginning, At, Run, Cmd
      <3>2. Beginning(s) /\ slot'[s].cmd = slot[s].cmd
        BY <3>1, BeginningHolds
      <3> QED
        BY <3>1, <3>2 DEF Begun, Run, Cmd
    <2> QED
      BY <2>1, <2>2 DEF Begun
  <1>3. laneHeld[r]
    BY <1>1, <1>2 DEF LaneKept
  <1> QED
    BY <1>3, LaneReleased

\* The lane invariant holds of every behaviour of the worker.
THEOREM LaneInvariant == Spec => [](WorkerInv /\ CheckpointInv /\ PhaseInv /\ LaneKept)
  <1>1. Init => PhaseInv
    BY PhaseInvInit
  <1>2. Init => LaneKept
    <2>1. Init => \A r \in Runs : ~Begun(r)
      BY DEF Init, Begun, Beginning, NotStarted, At, IdleSlot
    <2> QED
      BY <2>1 DEF LaneKept
  <1>3. WorkerInv /\ CheckpointInv /\ PhaseInv /\ LaneKept /\ [Next]_vars => PhaseInv' /\ LaneKept'
    BY PhaseInvStep, LaneKeptStep
  <1> QED
    BY <1>1, <1>2, <1>3, CheckpointInvariant, PTL DEF Spec

\* A Run of a lane executes only while it holds the lane: no product handler,
\* no retry, no crash and no startup repair gives the lane away under it.
THEOREM LanesCoverExecution == Spec => []LaneCoversExecution
  <1>1. ASSUME WorkerInv, CheckpointInv, PhaseInv, LaneKept PROVE LaneCoversExecution
    <2> SUFFICES ASSUME NEW s \in Slots, slot[s].pc \in GraphPhases, LaneOf[Run(s)] # NoLane,
                        ~Abandoned(Run(s))
                 PROVE laneHeld[Run(s)]
      BY DEF LaneCoversExecution
    <2>1. Run(s) \in Runs
      BY <1>1, GraphPhaseFacts
    <2>2. Begun(Run(s))
      <3>1. CASE Kind[Cmd(s)] = "start"
        BY <1>1, <3>1 DEF Begun, Beginning, At, PhaseInv, WithinAttempts, GraphPhases
      <3>2. CASE Kind[Cmd(s)] # "start"
        BY <1>1, <3>2 DEF Begun, PhaseInv, ResumesStarted
      <3> QED
        BY <3>1, <3>2
    <2>3. ~Ended(Run(s))
      <3>1. NotStarted(Run(s)) \/ graph[latest[Run(s)]].status \in Unstable \cup {"waiting", "to_wait"}
        BY <1>1 DEF CheckpointInv, ExecutesFromLatest, ContinuesOwn, BeginsOn
      <3> QED
        BY <3>1 DEF Ended, LatestDisposition, OwnDisposition, Classify, Unstable
    <2> QED
      BY <1>1, <2>1, <2>2, <2>3 DEF LaneKept
  <1> QED
    BY <1>1, LaneInvariant, PTL

-----------------------------------------------------------------------------
(***************************************************************************)
(* Abandoned lanes.  A cancel that has begun its attempt is open until its *)
(* own slot settles it, because the Thread lock keeps every other slot     *)
(* away; and it is rejected only for reconciliation or because the Run has *)
(* a checkpoint.                                                           *)
(***************************************************************************)
CancelWorks ==
    \A s \in Slots :
        /\ slot[s].pc \in {"read", "unstart"} /\ Kind[Cmd(s)] = "cancel" => Unfinished(Cmd(s))
        /\ At(s, "unstart") => Kind[Cmd(s)] = "cancel" /\ NotStarted(Run(s))
        /\ At(s, "reject") /\ Kind[Cmd(s)] = "cancel" =>
              slot[s].code = "reconciliation_required" \/ ~NotStarted(Run(s))

(***************************************************************************)
(* A lane that a rejected start still holds.  Its Run never begins, and a  *)
(* cancel answers for it: an open one, one that asks for reconciliation,   *)
(* or an applied one whose products nobody has synchronized yet.           *)
(***************************************************************************)
KeptLane(r) == laneHeld[r] /\ RejectedStart(r)

KeptIsUnstarted == \A r \in Runs : KeptLane(r) => NotStarted(r)

KeptIsNotRun ==
    \A s \in Slots :
        slot[s].pc \in {"read", "guard", "node"} /\ Kind[Cmd(s)] = "start" => ~KeptLane(Run(s))

Answers(c) ==
    \/ Unfinished(c)
    \/ cmd[c].status = "rejected" /\ cmd[c].error = "reconciliation_required"
    \/ /\ AwaitsProducts(c)
       /\ \A s \in Slots : At(s, "mark") => Cmd(s) # c
       /\ \A p \in Claimants : reconciling[p] # c

KeptHasOwner ==
    \A r \in Runs : KeptLane(r) =>
        \E c \in Commands : RunOf[c] = r /\ Kind[c] = "cancel" /\ Answers(c)

OwnerInv == CancelWorks /\ KeptIsUnstarted /\ KeptIsNotRun /\ KeptHasOwner

\* Two slots under the lock of one Thread are the same slot.
LEMMA OneUnderLock ==
    ASSUME WorkerInv, NEW s \in Slots, NEW q \in Slots, slot[s].pc \in LockedPhases,
           slot[q].pc \in LockedPhases, Run(s) = Run(q)
    PROVE  s = q
  BY DEF WorkerInv, LockIsHeld

\* An open cancel stays open until a slot that holds the Thread lock settles it.
LEMMA CancelStaysOpen ==
    ASSUME WorkerInv, PhaseInv, [Next]_vars, NEW c \in Commands, Kind[c] = "cancel", Unfinished(c)
    PROVE  \/ Unfinished(c)'
           \/ \E s \in Slots : At(s, "apply") /\ AppliedBy(s, c)
           \/ \E s \in Slots : At(s, "reject") /\ RejectedBy(s, c)
  <1>1. RowChange(c)
    BY RowChanges
  <1>2. ASSUME NEW s \in Slots, RejectedBy(s, c) PROVE At(s, "reject")
    BY <1>2 DEF RejectedBy, PhaseInv, CancelPhases, At
  <1>3. ASSUME NEW s \in Slots PROVE ~UnstartedBy(s, c)
    BY DEF UnstartedBy, UnstartedStarts
  <1>4. ASSUME NEW s \in Slots, AppliedBy(s, c) PROVE At(s, "apply")
    BY <1>4 DEF AppliedBy
  <1> QED
    BY <1>1, <1>2, <1>3, <1>4 DEF RowChange, Unfinished, SyncedBySomeone

\* A cancel at work keeps to its rules.
LEMMA CancelWorksStep ==
    ASSUME WorkerInv, PhaseInv, OwnerInv, [Next]_vars
    PROVE  CancelWorks'
  <1>0. cmd \in [Commands -> CommandRow]
    BY DEF WorkerInv, TypeOK, InboxTypeOK
  <1>1. ASSUME NEW q \in Slots, slot'[q].pc \in {"read", "unstart"}, Kind[slot'[q].cmd] = "cancel"
        PROVE cmd'[slot'[q].cmd].status \in {"pending", "claimed"}
    <2>1. ASSUME slot[q].pc \in {"read", "unstart"}, slot'[q].cmd = slot[q].cmd
          PROVE cmd'[slot'[q].cmd].status \in {"pending", "claimed"}
      <3>1. Cmd(q) \in Commands /\ Unfinished(Cmd(q))
        BY <1>1, <2>1 DEF WorkerInv, SlotOwnsCommand, OwnerInv, CancelWorks, At, Cmd
      <3>2. ASSUME NEW s \in Slots, slot[s].pc \in {"apply", "reject"}, Cmd(s) = Cmd(q) PROVE FALSE
        BY <2>1, <3>2, OneUnderLock DEF LockedPhases, Run
      <3>3. cmd'[Cmd(q)].status \in {"pending", "claimed"}
        <4> DEFINE c == Cmd(q)
        <4>1. Kind[c] = "cancel"
          BY <1>1, <2>1 DEF Cmd
        <4>2. \/ cmd'[c].status \in {"pending", "claimed"}
              \/ \E s \in Slots : At(s, "apply") /\ AppliedBy(s, c)
              \/ \E s \in Slots : At(s, "reject") /\ RejectedBy(s, c)
          <5> HIDE DEF c
          <5>1. c \in Commands /\ Unfinished(c)
            BY <3>1 DEF c
          <5> QED
            BY <4>1, <5>1, CancelStaysOpen DEF Unfinished
        <4> QED
          BY <3>2, <4>2 DEF AppliedBy, RejectedBy, At
      <3> QED
        BY <2>1, <3>3 DEF Cmd
    <2>2. CASE slot'[q] = slot[q]
      BY <1>1, <2>1, <2>2
    <2>3. CASE slot[q].pc # "idle" /\ slot'[q].cmd = slot[q].cmd /\ Arrives(q)
      <3>1. CASE slot'[q].pc = "read"
        <4>1. BeginAttempt(q) /\ Cmd(q) \in Commands
          BY <2>3, <3>1 DEF Arrives, WorkerInv, SlotOwnsCommand, At
        <4>2. cmd'[Cmd(q)].status = "claimed"
          BY <1>0, <4>1 DEF BeginAttempt, BeginCommandAttempt, RequireClaimant, CommandRow
        <4> QED
          BY <2>3, <4>2 DEF Cmd
      <3>2. CASE slot'[q].pc = "unstart"
        BY <2>1, <2>3, <3>2 DEF Arrives
      <3> QED
        BY <1>1, <3>1, <3>2
    <2> QED
      BY <1>1, <2>2, <2>3, SlotHistory
  <1>2. ASSUME NEW q \in Slots, slot'[q].pc = "unstart"
        PROVE Kind[slot'[q].cmd] = "cancel" /\ latest'[RunOf[slot'[q].cmd]] = NoCommand
    <2>1. CASE slot'[q] = slot[q]
      <3>1. Kind[Cmd(q)] = "cancel" /\ NotStarted(Run(q)) /\ Run(q) \in Runs
        BY <1>2, <2>1, CommandsAssumption
        DEF OwnerInv, CancelWorks, At, WorkerInv, SlotOwnsCommand, Run
      <3>2. ASSUME NEW s \in Slots, slot[s].pc \in GraphPhases, Run(s) = Run(q) PROVE FALSE
        BY <1>2, <2>1, <3>2, OneUnderLock DEF LockedPhases, GraphPhases
      <3>3. latest'[Run(q)] = NoCommand
        BY <3>1, <3>2, StartedStays DEF NotStarted
      <3> QED
        BY <2>1, <3>1, <3>3 DEF Run, Cmd
    <2>2. CASE slot'[q].cmd = slot[q].cmd /\ Arrives(q)
      BY <1>2, <2>2 DEF Arrives, Run, Cmd, NotStarted, graphVars
    <2> QED
      BY <1>2, <2>1, <2>2, SlotHistory
  <1>3. ASSUME NEW q \in Slots, slot'[q].pc = "reject", Kind[slot'[q].cmd] = "cancel"
        PROVE \/ slot'[q].code = "reconciliation_required"
              \/ latest'[RunOf[slot'[q].cmd]] # NoCommand
    <2>1. ASSUME slot[q].pc # "idle", slot'[q].cmd = slot[q].cmd, ~NotStarted(Run(q))
          PROVE latest'[RunOf[slot'[q].cmd]] # NoCommand
      <3>1. Run(q) \in Runs
        BY <2>1, CommandsAssumption DEF WorkerInv, SlotOwnsCommand, At, Run
      <3> QED
        BY <2>1, <3>1, StartedStays DEF Run, Cmd, NotStarted
    <2>2. CASE slot'[q] = slot[q]
      BY <1>3, <2>1, <2>2 DEF OwnerInv, CancelWorks, At, Cmd
    <2>3. CASE slot[q].pc # "idle" /\ slot'[q].cmd = slot[q].cmd /\ Arrives(q)
      BY <1>3, <2>1, <2>3 DEF Arrives, Cmd
    <2> QED
      BY <1>3, <2>2, <2>3, SlotHistory
  <1> QED
    BY <1>1, <1>2, <1>3 DEF CancelWorks, At, Cmd, Run, NotStarted, Unfinished

\* Only a cancel that finds no checkpoint rejects a start without its lane.
LEMMA KeptBegins ==
    ASSUME WorkerInv, PhaseInv, OwnerInv, [Next]_vars, NEW r \in Runs, KeptLane(r)'
    PROVE  \/ KeptLane(r)
           \/ \E s \in Slots : RejectUnstarted(s) /\ Run(s) = r
  <1>0. PICK p \in Commands : RunOf[p] = r /\ Kind[p] = "start" /\ cmd'[p].status = "rejected"
    BY DEF KeptLane, RejectedStart
  <1>1. laneHeld'[r]
    BY DEF KeptLane
  <1>2. CASE cmd[p].status # "rejected"
    <2>1. RowChange(p)
      BY RowChanges
    <2>2. PICK s \in Slots : RejectedBy(s, p) \/ UnstartedBy(s, p)
      BY <1>0, <1>2, <2>1 DEF RowChange, AppliedBy, SyncedBySomeone
    <2>3. ~RejectedBy(s, p)
      BY <1>0, <1>1 DEF RejectedBy
    <2>4. RejectUnstarted(s) /\ Run(s) = r
      BY <1>0, <2>2, <2>3 DEF UnstartedBy, UnstartedStarts, Run
    <2> QED
      BY <2>4
  <1>3. CASE cmd[p].status = "rejected"
    <2>1. RejectedStart(r)
      BY <1>0, <1>3 DEF RejectedStart
    <2>2. CASE laneHeld[r]
      BY <2>1, <2>2 DEF KeptLane
    <2>3. CASE ~laneHeld[r]
      <3>1. ASSUME NEW s \in Slots, NEW c \in Commands, Claim(s, c), RunOf[c] = r,
                   Kind[c] = "start"
            PROVE FALSE
        <4>1. c = p
          BY <1>0, <3>1, OneStart
        <4> QED
          BY <1>3, <3>1, <4>1 DEF Claim, ClaimNextCommand, Claimable, Reclaimable
      <3>2. LaneChange(r) /\ laneHeld'[r] # laneHeld[r]
        BY <1>1, <2>3, LaneChanges
      <3> QED
        BY <1>1, <3>1, <3>2 DEF LaneChange
    <2> QED
      BY <2>2, <2>3
  <1> QED
    BY <1>2, <1>3

\* A Run whose rejected start holds the lane is never begun.
LEMMA KeptIsUnstartedStep ==
    ASSUME WorkerInv, PhaseInv, OwnerInv, [Next]_vars
    PROVE  KeptIsUnstarted'
  <1> SUFFICES ASSUME NEW r \in Runs, KeptLane(r)' PROVE NotStarted(r)'
    BY DEF KeptIsUnstarted
  <1>1. CASE KeptLane(r)
    <2>1. NotStarted(r)
      BY <1>1 DEF OwnerInv, KeptIsUnstarted
    <2>2. ASSUME NEW s \in Slots, slot[s].pc \in GraphPhases, Run(s) = r PROVE FALSE
      <3>1. Kind[Cmd(s)] = "start"
        BY <2>1, <2>2 DEF PhaseInv, ResumesStarted
      <3> QED
        BY <1>1, <2>2, <3>1 DEF OwnerInv, KeptIsNotRun, GraphPhases
    <2> QED
      BY <2>1, <2>2, StartedStays
  <1>2. ASSUME NEW s \in Slots, RejectUnstarted(s), Run(s) = r PROVE NotStarted(r)'
    <2>1. NotStarted(r) /\ UNCHANGED graphVars
      BY <1>2 DEF RejectUnstarted, OwnerInv, CancelWorks
    <2> QED
      BY <2>1 DEF NotStarted, graphVars
  <1> QED
    BY <1>1, <1>2, KeptBegins

\* No slot begins a start that was rejected with its lane.
LEMMA KeptIsNotRunStep ==
    ASSUME WorkerInv, PhaseInv, OwnerInv, [Next]_vars
    PROVE  KeptIsNotRun'
  <1> SUFFICES ASSUME NEW q \in Slots, NEW c, c = slot'[q].cmd,
                      slot'[q].pc \in {"read", "guard", "node"}, Kind[c] = "start",
                      KeptLane(RunOf[c])'
               PROVE FALSE
    BY DEF KeptIsNotRun, Run, Cmd, KeptLane, RejectedStart
  <1>0. /\ \/ slot'[q] = slot[q]
           \/ slot[q].pc # "idle" /\ slot'[q].cmd = slot[q].cmd /\ Arrives(q)
        /\ slot[q].pc # "idle" /\ slot[q].cmd = c
    BY SlotHistory
  <1>1. c \in Commands /\ RunOf[c] \in Runs /\ Run(q) = RunOf[c] /\ Cmd(q) = c
    BY <1>0, CommandsAssumption DEF WorkerInv, SlotOwnsCommand, At, Run, Cmd
  <1>2. CASE KeptLane(RunOf[c])
    <2>1. slot[q].pc \notin {"read", "guard", "node"}
      BY <1>1, <1>2 DEF OwnerInv, KeptIsNotRun
    <2>2. BeginAttempt(q)
      BY <1>0, <2>1 DEF Arrives, GraphPhases
    <2>3. cmd[c].status = "claimed"
      BY <1>1, <2>2 DEF BeginAttempt, BeginCommandAttempt, RequireClaimant
    <2>4. PICK p \in Commands :
              RunOf[p] = RunOf[c] /\ Kind[p] = "start" /\ cmd[p].status = "rejected"
      BY <1>2 DEF KeptLane, RejectedStart
    <2>5. p = c
      BY <1>1, <2>4, OneStart
    <2> QED
      BY <2>3, <2>4, <2>5
  <1>3. ASSUME NEW s \in Slots, RejectUnstarted(s), Run(s) = RunOf[c] PROVE FALSE
    <2>1. slot'[s].pc = "apply"
      BY <1>3, ToApplyMoves DEF RejectUnstarted, WorkerInv
    <2>2. q # s
      BY <2>1
    <2>3. slot[q].pc \in LockedPhases
      <3>1. SlotStep(s)
        BY <1>3 DEF SlotStep
      <3>2. Moved(s)
        BY <3>1, SlotStepShape DEF Shape, Entered, Stayed, Left, Outside
      <3>3. slot'[q] = slot[q]
        BY <2>2, <3>2 DEF Moved
      <3> QED
        BY <3>3 DEF LockedPhases
    <2>4. slot[s].pc \in LockedPhases
      BY <1>3 DEF RejectUnstarted, At, LockedPhases
    <2> QED
      BY <1>1, <1>3, <2>2, <2>3, <2>4, OneUnderLock
  <1> QED
    BY <1>1, <1>2, <1>3, KeptBegins

\* A rejected Command keeps its code.
LEMMA RejectionStays ==
    ASSUME WorkerInv, [Next]_vars, NEW c \in Commands, cmd[c].status = "rejected"
    PROVE  cmd'[c] = cmd[c]
  <1>1. RowChange(c)
    BY RowChanges
  <1> QED
    BY <1>1
    DEF RowChange, AppliedBy, RejectedBy, UnstartedBy, SyncedBySomeone, UnstartedStarts,
        Reclaimable

\* Synchronizing the products of a cancel frees the lane of its Run.
LEMMA CancelFreesLane ==
    ASSUME WorkerInv, NEW c \in Commands, Kind[c] = "cancel", laneHeld' = FreedLanes(c, TRUE)
    PROVE  ~laneHeld'[RunOf[c]]
  BY CommandsAssumption DEF FreedLanes, EndsRun, WorkerInv, TypeOK, InboxTypeOK

\* As long as the lane is held, nobody has synchronized the products of the
\* cancel without marking it.
LEMMA NobodySynchronizes ==
    ASSUME WorkerInv, PhaseInv, [Next]_vars, NEW c \in Commands, Kind[c] = "cancel",
           laneHeld'[RunOf[c]],
           \/ Unfinished(c)
           \/ /\ \A s \in Slots : At(s, "mark") => Cmd(s) # c
              /\ \A p \in Claimants : reconciling[p] # c
    PROVE  /\ \A s \in Slots : slot'[s].pc = "mark" => slot'[s].cmd # c
           /\ \A p \in Claimants : reconciling'[p] # c
  <1>0. /\ \A s \in Slots : slot[s].pc = "mark" => slot[s].cmd # c
        /\ \A p \in Claimants : reconciling[p] # c
    <2>1. CASE Unfinished(c)
      <3>1. c # NoCommand /\ cmd[c].status # "applied"
        BY <2>1, SlotsAssumption DEF Unfinished
      <3> QED
        BY <3>1 DEF PhaseInv, ProductPhases, Cmd
    <2> QED
      BY <2>1 DEF At, Cmd
  <1>1. ASSUME NEW q \in Slots, slot'[q].pc = "mark", slot'[q].cmd = c PROVE FALSE
    <2>1. slot'[q] # slot[q]
      BY <1>0, <1>1
    <2>2. slot'[q].cmd = slot[q].cmd /\ SyncProducts(q)
      BY <1>1, <2>1, SlotHistory DEF Arrives
    <2>3. laneHeld' = FreedLanes(c, TRUE)
      BY <1>1, <2>2 DEF SyncProducts, Cmd
    <2> QED
      BY <2>3, CancelFreesLane
  <1>2. ASSUME NEW p \in Claimants, reconciling'[p] = c PROVE FALSE
    <2>0. c # NoCommand /\ reconciling \in [Claimants -> Commands \cup {NoCommand}]
      BY SlotsAssumption DEF WorkerInv, TypeOK
    <2>1. reconciling' # reconciling
      BY <1>0, <1>2
    <2>2. ASSUME NEW d \in Commands, NEW w \in Claimants, ReconcileProducts(w, d) PROVE FALSE
      <3>1. d = c
        BY <1>0, <1>2, <2>0, <2>2 DEF ReconcileProducts
      <3> QED
        BY <2>2, <3>1, CancelFreesLane DEF ReconcileProducts
    <2>3. ASSUME NEW w \in Claimants, ReconcilerMarksSynced(w) \/ Crash(w) PROVE FALSE
      BY <1>0, <1>2, <2>0, <2>3 DEF ReconcilerMarksSynced, Crash
    <2>4. ASSUME NEW s \in Slots, SlotStep(s) \/ SlotFault(s) PROVE FALSE
      BY <2>1, <2>4, SlotStepRest DEF procVars
    <2> QED
      BY <2>1, <2>2, <2>3, <2>4
      DEF Next, Intake, OrphanExpires, HeartbeatStalls, Claim, ReconcileProductsFails,
          Heartbeat, Restart, vars, workerVars, procVars
  <1> QED
    BY <1>1, <1>2

\* A cancel that answers for a held lane goes on answering for it.
LEMMA AnswersStay ==
    ASSUME WorkerInv, PhaseInv, OwnerInv, [Next]_vars, NEW c \in Commands, Kind[c] = "cancel",
           KeptLane(RunOf[c]), KeptLane(RunOf[c])', Answers(c)
    PROVE  Answers(c)'
  <1>0. laneHeld'[RunOf[c]] /\ NotStarted(RunOf[c]) /\ RunOf[c] \in Runs
    BY CommandsAssumption DEF KeptLane, OwnerInv, KeptIsUnstarted
  <1>1. CASE Unfinished(c)
    <2>0. /\ \A s \in Slots : slot'[s].pc = "mark" => slot'[s].cmd # c
          /\ \A p \in Claimants : reconciling'[p] # c
      BY <1>0, <1>1, NobodySynchronizes
    <2>1. ASSUME NEW s \in Slots, AppliedBy(s, c) PROVE Answers(c)'
      <3>1. AwaitsProducts(c)'
        BY <2>1 DEF AppliedBy, AwaitsProducts
      <3> QED
        BY <2>0, <3>1 DEF Answers, At, Cmd
    <2>2. ASSUME NEW s \in Slots, At(s, "reject"), RejectedBy(s, c) PROVE Answers(c)'
      <3>1. Cmd(s) = c /\ Run(s) = RunOf[c]
        BY <2>2 DEF RejectedBy, Run
      <3>2. slot[s].code = "reconciliation_required"
        BY <1>0, <2>2, <3>1 DEF OwnerInv, CancelWorks
      <3> QED
        BY <2>2, <3>2 DEF RejectedBy, Answers
    <2>3. ASSUME Unfinished(c)' PROVE Answers(c)'
      BY <2>3 DEF Answers
    <2> QED
      BY <1>1, <2>1, <2>2, <2>3, CancelStaysOpen
  <1>2. CASE cmd[c].status = "rejected" /\ cmd[c].error = "reconciliation_required"
    <2>1. cmd'[c] = cmd[c]
      BY <1>2, RejectionStays
    <2> QED
      BY <1>2, <2>1 DEF Answers
  <1>3. CASE /\ AwaitsProducts(c)
             /\ \A s \in Slots : At(s, "mark") => Cmd(s) # c
             /\ \A p \in Claimants : reconciling[p] # c
    <2>0. /\ \A s \in Slots : slot'[s].pc = "mark" => slot'[s].cmd # c
          /\ \A p \in Claimants : reconciling'[p] # c
      BY <1>0, <1>3, NobodySynchronizes
    <2>1. RowChange(c)
      BY RowChanges
    <2>2. cmd'[c] = cmd[c]
      BY <1>3, <2>1
      DEF RowChange, AppliedBy, RejectedBy, UnstartedBy, SyncedBySomeone, UnstartedStarts,
          Reclaimable, AwaitsProducts
    <2> QED
      BY <1>3, <2>0, <2>2 DEF Answers, AwaitsProducts, At, Cmd
  <1> QED
    BY <1>1, <1>2, <1>3 DEF Answers

\* A lane that a rejected start holds always has a cancel that answers for it.
LEMMA KeptHasOwnerStep ==
    ASSUME WorkerInv, PhaseInv, OwnerInv, [Next]_vars
    PROVE  KeptHasOwner'
  <1> SUFFICES ASSUME NEW r \in Runs, KeptLane(r)'
               PROVE \E c \in Commands : RunOf[c] = r /\ Kind[c] = "cancel" /\ Answers(c)'
    BY DEF KeptHasOwner
  <1>1. CASE KeptLane(r)
    <2>1. PICK c \in Commands : RunOf[c] = r /\ Kind[c] = "cancel" /\ Answers(c)
      BY <1>1 DEF OwnerInv, KeptHasOwner
    <2>2. Answers(c)'
      BY <1>1, <2>1, AnswersStay
    <2> QED
      BY <2>1, <2>2
  <1>2. ASSUME NEW s \in Slots, RejectUnstarted(s), Run(s) = r
        PROVE \E c \in Commands : RunOf[c] = r /\ Kind[c] = "cancel" /\ Answers(c)'
    <2>0. PICK c \in Commands : c = Cmd(s)
      BY <1>2 DEF RejectUnstarted, At, WorkerInv, SlotOwnsCommand
    <2>1. c \in Commands /\ RunOf[c] = r /\ Kind[c] = "cancel" /\ Unfinished(c)
      BY <1>2, <2>0 DEF RejectUnstarted, At, WorkerInv, SlotOwnsCommand, OwnerInv, CancelWorks, Run
    <2>2. cmd'[c] = cmd[c]
      <3>1. c \notin UnstartedStarts(c)
        BY <2>1 DEF UnstartedStarts
      <3> QED
        BY <1>2, <2>0, <2>1, <3>1 DEF RejectUnstarted, RejectUnstartedRunForCancel
    <2>3. Answers(c)'
      BY <2>1, <2>2 DEF Answers, Unfinished
    <2> QED
      BY <2>1, <2>3
  <1> QED
    BY <1>1, <1>2, KeptBegins

\* The invariant of abandoned lanes holds of every behaviour of the worker.
THEOREM OwnerInvariant == Spec => [](WorkerInv /\ PhaseInv /\ OwnerInv)
  <1>1. Init => OwnerInv
    <2> SUFFICES ASSUME Init PROVE OwnerInv
      OBVIOUS
    <2>1. \A s \in Slots : slot[s].pc = "idle"
      BY DEF Init, IdleSlot
    <2>2. \A r \in Runs : ~KeptLane(r)
      BY DEF Init, InboxInit, KeptLane
    <2> QED
      BY <2>1, <2>2 DEF OwnerInv, CancelWorks, KeptIsUnstarted, KeptIsNotRun, KeptHasOwner, At
  <1>2. WorkerInv /\ PhaseInv /\ OwnerInv /\ [Next]_vars => OwnerInv'
    BY CancelWorksStep, KeptIsUnstartedStep, KeptIsNotRunStep, KeptHasOwnerStep DEF OwnerInv
  <1> QED
    BY <1>1, <1>2, LaneInvariant, PTL DEF Spec

\* A lane held by a Run whose start was rejected always has somebody left to
\* release it: for every number of cancels, workers, retries and crashes.
THEOREM AbandonedLanesHaveOwners == Spec => []AbandonedLaneHasOwner
  <1>1. OwnerInv => AbandonedLaneHasOwner
    BY DEF OwnerInv, KeptHasOwner, KeptLane, Answers, AbandonedLaneHasOwner
  <1> QED
    BY <1>1, OwnerInvariant, PTL

=============================================================================

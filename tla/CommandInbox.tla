---------------------------- MODULE CommandInbox ----------------------------
(***************************************************************************)
(* The durable Command Inbox of the Agent Runtime: the tables              *)
(* agent_run_commands and agent_runs (their scheduling columns), and the   *)
(* transactions of services/agent_runtime/persistence.py on them.  Every   *)
(* function of that file runs in one database transaction that locks the   *)
(* rows it changes, so each is one action here.                            *)
(*                                                                         *)
(* A Command is a number: its position in the order (created_at, id).      *)
(* created_at is the start time of the enqueuing transaction, so Commands  *)
(* may become visible out of order; only the start, written together with  *)
(* its Run, precedes every other Command of the Run.  A Run is a number    *)
(* too: its scheduling position.                                           *)
(***************************************************************************)
EXTENDS Naturals, FiniteSets

CONSTANTS
    Commands,       \* every start, resume and cancel that may ever be enqueued
    Runs,           \* every Run that may ever be registered
    RunOf,          \* the Run a Command belongs to
    Kind,           \* "start", "resume" or "cancel"
    Lanes,          \* scheduling_lane_key values
    LaneOf,         \* the lane of a Run, or NoLane
    NoLane,
    Claimants,      \* worker processes; one claimant string per process
    NoClaimant,
    Checkpoints,    \* applied_checkpoint_id values
    NoCheckpoint,
    MaxAttempts     \* AGENT_RUNTIME_COMMAND_MAX_ATTEMPTS

ASSUME CommandsAssumption ==
    /\ Commands \subseteq Nat
    /\ Runs \subseteq Nat
    /\ RunOf \in [Commands -> Runs]
    /\ Kind \in [Commands -> {"start", "resume", "cancel"}]

ASSUME StartAssumption ==
    \A r \in Runs : \E s \in Commands :
        /\ RunOf[s] = r
        /\ Kind[s] = "start"
        /\ \A c \in Commands : RunOf[c] = r /\ c # s => s < c /\ Kind[c] # "start"

ASSUME LanesAssumption ==
    /\ NoLane \notin Lanes
    /\ LaneOf \in [Runs -> Lanes \cup {NoLane}]

ASSUME WorkersAssumption ==
    /\ NoClaimant \notin Claimants
    /\ NoCheckpoint \notin Checkpoints
    /\ MaxAttempts \in Nat \ {0}

VARIABLES
    cmd,        \* the rows of agent_run_commands
    laneHeld    \* agent_runs.lane_held

inboxVars == <<cmd, laneHeld>>

RejectionCodes ==
    {"already_terminal", "cancelled_before_apply", "cancelled_before_start",
     "reconciliation_required", "thread_not_started", "resume_mismatch"}

ErrorCodes == {"none", "retry", "product_sync_pending"} \cup RejectionCodes

(***************************************************************************)
(* live stands for claim_expires_at >= now: the lease of a claim.          *)
(***************************************************************************)
CommandRow ==
    [status     : {"absent", "pending", "claimed", "applied", "rejected"},
     claimant   : Claimants \cup {NoClaimant},
     live       : BOOLEAN,
     attempts   : 0..MaxAttempts,
     checkpoint : Checkpoints \cup {NoCheckpoint},
     error      : ErrorCodes]

AbsentRow ==
    [status |-> "absent", claimant |-> NoClaimant, live |-> FALSE,
     attempts |-> 0, checkpoint |-> NoCheckpoint, error |-> "none"]

\* The rows keep their types: attempts never pass the limit and only known
\* statuses and error codes are written, under any order of transactions.
InboxTypeOK ==
    /\ cmd \in [Commands -> CommandRow]
    /\ laneHeld \in [Runs -> BOOLEAN]

InboxInit ==
    /\ cmd = [c \in Commands |-> AbsentRow]
    /\ laneHeld = [r \in Runs |-> FALSE]

Unfinished(c) == cmd[c].status \in {"pending", "claimed"}
Settled(c) == cmd[c].status \in {"applied", "rejected"}
ClaimedLive(c) == cmd[c].status = "claimed" /\ cmd[c].live
Reclaimable(c) == cmd[c].status = "claimed" /\ ~cmd[c].live

Registered(r) == \E s \in Commands : RunOf[s] = r /\ Kind[s] = "start" /\ cmd[s].status # "absent"

-----------------------------------------------------------------------------
(***************************************************************************)
(* Intake.                                                                 *)
(***************************************************************************)

\* register_run_with_start: the Run and its start in one transaction.  A retry
\* of the same source finds the row and changes nothing.
RegisterRunWithStart(c) ==
    /\ Kind[c] = "start"
    /\ cmd[c].status = "absent"
    /\ cmd' = [cmd EXCEPT ![c].status = "pending"]
    /\ UNCHANGED laneHeld

\* enqueue_resume and enqueue_cancel: the Run must exist; a repeated
\* idempotency key returns the first row.
EnqueueCommand(c) ==
    /\ Kind[c] # "start"
    /\ cmd[c].status = "absent"
    /\ Registered(RunOf[c])
    /\ cmd' = [cmd EXCEPT ![c].status = "pending"]
    /\ UNCHANGED laneHeld

-----------------------------------------------------------------------------
(***************************************************************************)
(* Claiming.                                                               *)
(***************************************************************************)

\* Mutant: any Command overtakes a start that is not being worked on.
EarlierUnfinishedSkipsStart(c) ==
    \E p \in Commands :
        /\ RunOf[p] = RunOf[c]
        /\ Unfinished(p)
        /\ p < c
        /\ Kind[p] # "start" \/ ClaimedLive(p)

\* A Command waits for every earlier unfinished Command of its Run, but a
\* cancel overtakes a start that is pending or whose claim has expired.
EarlierUnfinished(c) ==
    \E p \in Commands :
        /\ RunOf[p] = RunOf[c]
        /\ Unfinished(p)
        /\ p < c
        /\ (Kind[c] # "cancel" \/ Kind[p] # "start" \/ ClaimedLive(p))

ActiveLaneHolder(r) ==
    \E q \in Runs \ {r} : LaneOf[q] = LaneOf[r] /\ laneHeld[q]

\* Mutant: a start also waits for earlier starts that are settled.
EarlierLaneStartSettledToo(r) ==
    \E p \in Commands :
        /\ LaneOf[RunOf[p]] = LaneOf[r]
        /\ Kind[p] = "start"
        /\ cmd[p].status # "absent"
        /\ RunOf[p] < r

EarlierLaneStart(r) ==
    \E p \in Commands :
        /\ LaneOf[RunOf[p]] = LaneOf[r]
        /\ Kind[p] = "start"
        /\ Unfinished(p)
        /\ RunOf[p] < r

\* Mutant: a lane is taken without looking for another holder.
LaneAdmitsDespiteHolder(c) ==
    \/ LaneOf[RunOf[c]] = NoLane
    \/ Kind[c] # "start"
    \/ laneHeld[RunOf[c]]
    \/ ~EarlierLaneStart(RunOf[c])

LaneAdmits(c) ==
    \/ LaneOf[RunOf[c]] = NoLane
    \/ Kind[c] # "start"
    \/ laneHeld[RunOf[c]]
    \/ ~ActiveLaneHolder(RunOf[c]) /\ ~EarlierLaneStart(RunOf[c])

\* Mutant: a claim is taken over before its lease has run out.
ClaimableDespiteLease(c) ==
    /\ cmd[c].status \in {"pending", "claimed"}
    /\ ~EarlierUnfinished(c)
    /\ LaneAdmits(c)

\* Mutant: the claim of a dead worker is never taken over.
ClaimablePendingOnly(c) ==
    /\ cmd[c].status = "pending"
    /\ ~EarlierUnfinished(c)
    /\ LaneAdmits(c)

\* The candidates of _claim_statement.  FOR UPDATE SKIP LOCKED may pass over
\* the oldest one, so any candidate can be the one claimed.
Claimable(c) ==
    /\ cmd[c].status = "pending" \/ Reclaimable(c)
    /\ ~EarlierUnfinished(c)
    /\ LaneAdmits(c)

\* Mutant: any Command of a Run takes a free lane, not only its start.
AcquiresLaneForAnyKind(c) ==
    /\ cmd[c].attempts < MaxAttempts
    /\ LaneOf[RunOf[c]] # NoLane
    /\ ~ActiveLaneHolder(RunOf[c])

\* _acquire_start_lane, called for a start that still has attempts left.
AcquiresLane(c) ==
    /\ Kind[c] = "start"
    /\ cmd[c].attempts < MaxAttempts
    /\ LaneOf[RunOf[c]] # NoLane

ClaimNextCommand(c, w) ==
    /\ Claimable(c)
    /\ cmd' = [cmd EXCEPT ![c].status = "claimed", ![c].claimant = w,
                          ![c].live = TRUE, ![c].error = "none"]
    /\ laneHeld' = IF AcquiresLane(c)
                   THEN [laneHeld EXCEPT ![RunOf[c]] = TRUE]
                   ELSE laneHeld

\* The clock passes claim_expires_at.
ExpireClaim(c) ==
    /\ ClaimedLive(c)
    /\ cmd' = [cmd EXCEPT ![c].live = FALSE]
    /\ UNCHANGED laneHeld

-----------------------------------------------------------------------------
(***************************************************************************)
(* Transactions of the claimant.  _require_claimant compares the claimant  *)
(* string and does not look at the lease.                                  *)
(***************************************************************************)
RequireClaimant(c, w) == cmd[c].status = "claimed" /\ cmd[c].claimant = w

RenewCommandClaim(c, w) ==
    /\ RequireClaimant(c, w)
    /\ cmd' = [cmd EXCEPT ![c].live = TRUE]
    /\ UNCHANGED laneHeld

\* Mutant: an attempt is counted without looking at the limit.
BeginCommandAttemptUnlimited(c, w) ==
    /\ RequireClaimant(c, w)
    /\ cmd' = [cmd EXCEPT ![c].attempts = @ + 1]
    /\ UNCHANGED laneHeld

BeginCommandAttempt(c, w) ==
    /\ RequireClaimant(c, w)
    /\ cmd[c].attempts < MaxAttempts
    /\ cmd' = [cmd EXCEPT ![c].attempts = @ + 1]
    /\ UNCHANGED laneHeld

AlreadyApplied(c, w, ckpt) ==
    cmd[c].status = "applied" /\ cmd[c].claimant = w /\ cmd[c].checkpoint = ckpt

\* Repeating the same settlement is accepted and changes nothing.
MarkCommandApplied(c, w, ckpt) ==
    /\ ckpt = NoCheckpoint => Kind[c] = "cancel"
    /\ \/ AlreadyApplied(c, w, ckpt) /\ UNCHANGED cmd
       \/ /\ RequireClaimant(c, w)
          /\ cmd' = [cmd EXCEPT ![c].status = "applied", ![c].live = FALSE,
                                ![c].checkpoint = ckpt,
                                ![c].error = "product_sync_pending"]
    /\ UNCHANGED laneHeld

\* Mutant: a cancel rejects the start whatever became of it.
UnstartedStartsInAnyStatus(c) ==
    {p \in Commands : RunOf[p] = RunOf[c] /\ Kind[p] = "start" /\ p < c}

\* A start that a cancel may reject: earlier, and pending or expired.
UnstartedStarts(c) ==
    {p \in Commands : /\ RunOf[p] = RunOf[c]
                      /\ Kind[p] = "start"
                      /\ p < c
                      /\ cmd[p].status = "pending" \/ Reclaimable(p)}

RejectUnstartedRunForCancel(c) ==
    /\ Kind[c] = "cancel"
    /\ cmd[c].status # "absent"
    /\ cmd' = [p \in Commands |->
                  IF p \in UnstartedStarts(c)
                  THEN [cmd[p] EXCEPT !.status = "rejected", !.claimant = NoClaimant,
                                      !.live = FALSE, !.checkpoint = NoCheckpoint,
                                      !.error = "cancelled_before_start"]
                  ELSE cmd[p]]
    /\ UNCHANGED laneHeld

AlreadyRejected(c, w, code) ==
    cmd[c].status = "rejected" /\ cmd[c].claimant = w /\ cmd[c].error = code

\* Mutant: a rejected start keeps its lane.
MarkCommandRejectedKeepsLane(c, w, code) ==
    /\ \/ AlreadyRejected(c, w, code) /\ UNCHANGED cmd
       \/ /\ RequireClaimant(c, w)
          /\ cmd' = [cmd EXCEPT ![c].status = "rejected", ![c].live = FALSE,
                                ![c].checkpoint = NoCheckpoint, ![c].error = code]
    /\ UNCHANGED laneHeld

\* Rejecting a start gives its lane back in the same transaction.
MarkCommandRejected(c, w, code) ==
    /\ \/ AlreadyRejected(c, w, code) /\ UNCHANGED cmd
       \/ /\ RequireClaimant(c, w)
          /\ cmd' = [cmd EXCEPT ![c].status = "rejected", ![c].live = FALSE,
                                ![c].checkpoint = NoCheckpoint, ![c].error = code]
    /\ laneHeld' = IF Kind[c] = "start"
                   THEN [laneHeld EXCEPT ![RunOf[c]] = FALSE]
                   ELSE laneHeld

ReleaseCommandClaim(c, w) ==
    /\ RequireClaimant(c, w)
    /\ cmd' = [cmd EXCEPT ![c].status = "pending", ![c].claimant = NoClaimant,
                          ![c].live = FALSE, ![c].checkpoint = NoCheckpoint,
                          ![c].error = "retry"]
    /\ UNCHANGED laneHeld

\* RuntimeCommandWorker._defer_without_attempt: release and refund.
DeferWithoutAttempt(c, w) ==
    /\ RequireClaimant(c, w)
    /\ cmd[c].attempts > 0
    /\ cmd' = [cmd EXCEPT ![c].status = "pending", ![c].claimant = NoClaimant,
                          ![c].live = FALSE, ![c].checkpoint = NoCheckpoint,
                          ![c].error = "retry", ![c].attempts = @ - 1]
    /\ UNCHANGED laneHeld

-----------------------------------------------------------------------------
(***************************************************************************)
(* Product synchronization and repair.                                     *)
(***************************************************************************)
MarkCommandProductSynced(c) ==
    /\ cmd[c].status = "applied"
    /\ cmd[c].error \in {"none", "product_sync_pending"}
    /\ cmd' = [cmd EXCEPT ![c].error = "none"]
    /\ UNCHANGED laneHeld

\* SchedulingLaneCompletionHandler, and the lane reset of a cancel that found
\* no checkpoint.
ReleaseLane(r) ==
    /\ laneHeld' = [laneHeld EXCEPT ![r] = FALSE]
    /\ UNCHANGED cmd

RejectedStart(r) ==
    \E s \in Commands : RunOf[s] = r /\ Kind[s] = "start" /\ cmd[s].status = "rejected"

\* release_rejected_start_lanes, run when a worker process starts.
ReleaseRejectedStartLanes ==
    /\ laneHeld' = [r \in Runs |-> laneHeld[r] /\ ~RejectedStart(r)]
    /\ UNCHANGED cmd

-----------------------------------------------------------------------------
(***************************************************************************)
(* The inbox under arbitrary callers: any process may run any transaction  *)
(* at any time, with any checkpoint and any code.                          *)
(***************************************************************************)
ClaimantTransaction(c, w) ==
    \/ RenewCommandClaim(c, w)
    \/ BeginCommandAttempt(c, w)
    \/ \E ckpt \in Checkpoints \cup {NoCheckpoint} : MarkCommandApplied(c, w, ckpt)
    \/ \E code \in RejectionCodes : MarkCommandRejected(c, w, code)
    \/ ReleaseCommandClaim(c, w)
    \/ DeferWithoutAttempt(c, w)

InboxNext ==
    \/ \E c \in Commands :
          \/ RegisterRunWithStart(c)
          \/ EnqueueCommand(c)
          \/ ExpireClaim(c)
          \/ RejectUnstartedRunForCancel(c)
          \/ MarkCommandProductSynced(c)
          \/ \E w \in Claimants : ClaimNextCommand(c, w) \/ ClaimantTransaction(c, w)
    \/ \E r \in Runs : ReleaseLane(r)
    \/ ReleaseRejectedStartLanes

InboxSpec == InboxInit /\ [][InboxNext]_inboxVars

-----------------------------------------------------------------------------
(***************************************************************************)
(* What the inbox promises to any caller.                                  *)
(***************************************************************************)

\* A scheduling lane has at most one holder, whichever processes claim,
\* reject, repair and synchronize concurrently (_acquire_start_lane,
\* uq_agent_runs_active_lane).
LaneExclusive ==
    \A q, r \in Runs :
        q # r /\ laneHeld[q] /\ laneHeld[r] => LaneOf[q] # LaneOf[r]

\* An applied or rejected Command keeps its status and its checkpoint: no late
\* settlement, release, claim or cancel of another worker rewrites it.
SettlementIsFinal ==
    [][\A c \in Commands : Settled(c) => /\ cmd'[c].status = cmd[c].status
                                         /\ cmd'[c].checkpoint = cmd[c].checkpoint]_inboxVars

\* A claim passes to another process only after its lease has run out; until
\* then it can only be released or settled (claim_next_command).
LiveClaimIsNotTaken ==
    [][\A c \in Commands :
          ClaimedLive(c) /\ cmd'[c].status = "claimed" => cmd'[c].claimant = cmd[c].claimant]_inboxVars

\* The inbox as a ledger: what CommandLedger says of Commands and lanes.
Outcome(c) ==
    IF cmd[c].status \in {"pending", "claimed"} THEN "open" ELSE cmd[c].status

Ledger == INSTANCE CommandLedger WITH
    outcome <- [c \in Commands |-> Outcome(c)],
    holders <- [l \in Lanes |-> {r \in Runs : LaneOf[r] = l /\ laneHeld[r]}]

\* Every transaction of persistence.py is a step of the ledger: a Command is
\* submitted once and settled once, and a lane admits a Run only while it is
\* free and the start of the Run is open.
LedgerSpec == Ledger!Spec
=============================================================================

# Formal model of the Clawith Agent Runtime

Clawith runs AI agents for tenants of a company platform. An agent's work is a
*Run*: a LangGraph graph that is started, may wait for an answer, is resumed,
and may be cancelled. The part of the program that decides whether that works
under crashes, retries and concurrent workers is the durable Agent Runtime
(`backend/app/services/agent_runtime/`) and the durable tables around it. Five of
its state machines are modelled here: the Command Inbox with the Command Worker
that drains it, the Tool Execution Ledger with its reconcilers, the queue of
Trigger executions, the outbox of channel messages, and the Credits ledger. The
models are checked with TLC on small instances, and their safety properties are
proved with TLAPS for every instance.

Paths below are relative to `backend/app/`; `AR/` stands for
`services/agent_runtime/`.

## 1. Inventory

| Component | State it keeps | Operations | What makes it correct |
|---|---|---|---|
| Command Inbox (`AR/persistence.py`, `models/agent_run_command.py`, `models/agent_run.py`) | rows of `agent_run_commands` (status, claimant, lease, attempts, checkpoint, error code), `agent_runs.lane_held` | register, enqueue, claim, renew, begin attempt, apply, reject, release, defer, mark synced, repair lanes | a Command settles once; a live claim is not taken; a lane has one holder |
| Command Worker (`AR/command_worker.py`) | one `run_once` per slot | claim, lock, read checkpoint, decide, execute, settle, release | a redelivered Command is reconciled, never executed twice; settlements name the right checkpoint |
| Thread lock (`AR/thread_lock.py`) | PostgreSQL advisory lock per Thread | try-lock, unlock | one writer per Thread |
| Cancel source (`AR/cancel_source.py`) | none (reads the inbox) | `get_cancel` | an unfinished cancel stops the invocation at the next safe point |
| Scheduling lanes (`AR/scheduling_lane.py`, `AR/persistence.py`) | `lane_held` | acquire with the start, release at the end | one Run of a lane executes; the lane is always returned |
| LangGraph driver, Graph, nodes (`AR/langgraph_driver.py`, `AR/graph.py`, `AR/node_executor.py`) | checkpoints | execute, resume, `control_guard`, nodes, wait, terminal | a checkpoint is a safe point to continue from |
| Checkpoint side effects (`AR/checkpoint_side_effects.py`) | run events, lanes, deliveries | handle, handle_rejection | idempotent, each handler independent; one terminal outcome |
| Product reconciler (`AR/product_reconciler.py`) | none (reads `product_sync_pending`) | replay products | products follow every settlement |
| Worker service (`AR/worker_service.py`) | daemons of a process | start, repair lanes, poll, stop | polls for ever, repairs at startup |
| Tool execution ledger (`AR/tool_execution.py`, `AR/tool_step_service.py`, `AR/tool_result_store.py`) | `agent_tool_executions` with leases, private result envelopes | reserve, retry, take over, settle, reconcile, confirm | an external effect is not repeated; the model is told what the receipt says |
| Group workspace mutations (`AR/group_runtime_tools.py`, `services/group_file_service.py`) | files and revisions | prepare, apply, finalize, reconcile | the receipt tells the truth about the file |
| Channel delivery (`AR/channel_delivery.py`, `AR/delivery.py`) | outbox rows, `agent_runs.delivery_status` | stage, claim, send, complete, fail | each message is sent or given up; duplicates only where a claim or an answer was lost |
| Async tool polling (`AR/async_tool_poll.py`) | receipts in the tool ledger | schedule a resume | a pending operation is polled |
| Triggers (`services/trigger_daemon.py`, `services/trigger_runtime/`, `AR/trigger_completion.py`) | `trigger_executions`, `agent_triggers` | register, start a meeting, change or re-arm, claim, renew, open a session, publish, complete, fail, project | due firings keep the limit; the outcome of a Run is shown for good |
| Credits (`services/credit_service.py`, `services/llm/caller.py`, `services/billing_*.py`) | `credit_balances`, `credit_reservations`, `credit_transactions`, `payment_orders` | grant, charge, hold, settle, release, sweep, refund | provider debt is charged once and in full; the row equals the ledger |
| Session context (`AR/session_context_*.py`) | versioned summaries with watermarks | compare-and-swap, compaction | no message lost between summary and tail |
| Agent to agent, group planning (`AR/a2a_*.py`, `AR/planning*.py`, `AR/group_handoff.py`) | parent waits, plans | delegate, complete, resume the parent | a parent never waits for ever |
| Approvals (`services/autonomy_service.py`), quotas (`services/quota_guard.py`), AgentBay locks (`services/agentbay_control_lock.py`) | request rows, balances, leases | reserve, settle, release | no double execution or charge |
| Chat intake, API, channels, realtime, storage, identity, media, OKR, frontend | product data | request handlers | mostly sequential request-scoped updates |

How the components interact: an intake (chat, trigger, another agent) writes a
Run and its start Command in one transaction. Worker processes poll the inbox.
A slot claims a Command (which also takes the lane of a start), takes the
Thread's advisory lock, runs the Graph through the driver, and settles the
Command in the inbox while it still holds the lock. Products (events, lane
release, deliveries) follow in separate transactions and are replayed by the
reconciler when anything failed. A cancel is itself a Command: the executing
Graph sees it through the cancel source and stops, and the worker that claims
the cancel applies it at the last checkpoint.

Inside a Run the tool node reserves a receipt, calls the provider and settles
the receipt, in three transactions; what a dead step leaves behind is settled by
the redelivered step, by the result reconciler or by the product reconciler. A
pending operation becomes a resume Command through the poll timer. A Trigger
occurrence is registered together with its Run; the trigger daemon also claims
execution rows and invokes the Agent itself, and the finished Run is projected
onto the row. Messages of a Run to external channels pass through the outbox.
Every model request holds Credits before it is sent and turns the hold into a
charge afterwards.

What is hard: the slots of a process share one claimant string, so a lost claim
is not always visible; leases expire under working processes; a cancel overtakes
starts; a process can die between any two transactions and between any two Graph
checkpoints; products are applied late and twice; lanes are given away by four
different code paths. A tool call can be delivered again while its first step
still executes, and a storage write can arrive after its process has died. Two
loops work on the same Trigger execution. A provider may have accepted a message
or a model request although its answer was lost. A balance is changed by requests,
sweeps, operators, payments and refunds. `PROJECT.json` lists these hazards at their lines with the
properties that cover them.

## 2. Modules

| Module | Content |
|---|---|
| `CommandLedger` | abstract specification: every Command is submitted once and settled once, lanes are locks |
| `CommandInbox` | the tables and transactions of `AR/persistence.py`; its own specification lets any process call any transaction at any time |
| `CommandWorker` | extends the inbox with worker processes, slots, the Thread lock, Graph checkpoints, products, the reconciler and faults |
| `ToolLedger` | receipts, steps, Group workspace mutations, result envelopes, reconcilers, polls |
| `TriggerQueue` | registration, the claim query of the daemon, its invocation tasks, the projection of Runs |
| `ChannelOutbox` | the outbox of a Run and its delivery workers |
| `CreditLedger` | balance row, ledger, holds of LLM rounds, sweep, operator, orders and refunds of a tenant |
| `MCCommandInbox`, `MCCommandWorker`, `MCToolLedger`, `MCTriggerQueue`, `MCChannelOutbox`, `MCCreditLedger` | finite instances (scripts of Commands, processes, lanes) |
| `CommandInboxProofs` | theorems about the inbox, and that it implements the ledger |
| `CommandWorkerProofs` | inductive invariant of the worker; types, one writer, the worker implements the inbox |
| `CheckpointProofs` | second inductive invariant of the worker; checkpoints and settlements |
| `LaneProofs` | order of start and resume, lanes under execution, owners of abandoned lanes |
| `ToolLedgerProofs`, `TriggerQueueProofs`, `ChannelOutboxProofs`, `CreditLedgerProofs` | inductive invariants and theorems of these modules |

`CommandWorker` composes the inbox with everything that acts on it. The other
four modules stand alone: what they share with it is a Run that ends
(`TriggerQueue`), a Run that stages messages (`ChannelOutbox`), a call that is
delivered once or more (`ToolLedger`), a request that may die (`CreditLedger`), and
each of these may happen at any moment.

### Inbox and worker: state

* `cmd[c]` is a row of `agent_run_commands`; `"absent"` is a row not written yet.
  `live` abstracts `claim_expires_at >= now`. A Command is a number, its position
  in `(created_at, id)`. Rows may become visible out of that order, because
  `created_at` is the time a transaction starts.
* `laneHeld[r]` is `agent_runs.lane_held`; a Run is a number, its scheduling
  position.
* `slot[s]` is the local state of one `run_once`: program counter, the Command,
  the `exhausted` flag computed at the claim, the checkpoint or rejection code
  about to be written.
* `lock[t]` is the advisory lock of a Thread.
* `graph[c]` is what the newest checkpoint written under Command `c` holds, and
  `latest[r]` names the Command that wrote the newest checkpoint of the Run; they
  stand for `read_for_command` and `read_latest`. A checkpoint id is the pair of
  Command and disposition, which is what the code compares it for.
* `events[r]` are the terminal lifecycle events of a Run, `up[p]` says whether a
  process runs, `reconciling[p]` is the Command between the two transactions of
  the reconciler of a process, `faults` counts injected faults.

### Inbox and worker: actions

Each function of `persistence.py` is one transaction and one action. `run_once`
is split where another process can intervene: at every transaction and at every
checkpoint. `Claim`, `AcquireThreadLock`/`ThreadLockBusy`, `BeginAttempt`, then
`ReconcileOwn`, `DecideCancel`, `DecideStart` or `DecideResume` (the branches of
`_process_locked`) or `ReconcileExhausted`; the Graph alternates `ControlGuard`
and a node (`NodeContinues`, `NodeDecides`, `WaitNodeResumes`, `GraphStops`);
settlement is `MarkApplied` or `MarkRejected`, followed by `SyncProducts` and
`MarkProductSynced`. Every settlement has its failing twin (`...Fails`) for a
claim that was lost. `InvocationCancelled` is `RuntimeInvocationCancelled`, which
leaves the lock before it settles (`RejectCancelled`).

A node commits its decision to wait or to end (`"to_wait"`, `"to_end"`) before
`control_guard` and the wait or terminal node turn it into an interrupt or END
(`"waiting"`, `"terminal"`). `classify_checkpoint` calls the checkpoints in between
inconsistent, because status and next nodes disagree.

A restarted process keeps its name in the model although
`runtime_worker_claimant` draws a new one: its old slots are gone and a new slot
acts on a Command only after claiming it again, so old and new claims of one
name never meet.

### Inbox and worker: faults

`crash` (a process dies, its locks are freed, it is restarted later and repairs
lanes), `stall` (a lease runs out under a working slot), `error` (any exception
under the lock), `busy_tool` (`ToolExecutionReconciliationPending` with an owner
elsewhere), `products` (any subset of the product handlers fails). `FaultKinds`
selects them and `MaxFaults` bounds their number in a behaviour.

### Inbox and worker: abstractions

* `FOR UPDATE SKIP LOCKED` and the polling order become: any candidate may be
  claimed. The reconciler's oldest-first order becomes: any candidate.
* `execution_error_recoverable` is treated as runnable; both continue with
  `ainvoke(None)`.
* `run_completed` stands also for a Graph that ended with status `failed`.
* Compact, model, tool and verify are one node that goes on, waits or ends.
* Product handlers other than events and lanes are not distinguished.
* `pre_command_handler` is `None` in `build_runtime_worker_components`; it is left
  out.
* Not reachable and therefore without an action: `start_checkpoint_conflict`,
  `cancel_checkpoint_forbidden`, `checkpoint_not_observed`, `command_not_stable`.
* Left out: deletion of Run rows, `run_not_found` and `legacy_runtime` of
  `_load_run`, and loss of the lock connection during the callback. `ToolLedger`
  covers what the last one leads to, two deliveries of a tool call at once.

### Tool ledger

`receipt[c]` is the row of a tool call: status, lease owner, lease, attempts and
the `runtime_retry_pending` and `runtime_async_pending` marks. A slot is one
invocation of the tool step or one pass of the product reconciler; it draws a new
lease owner each time, so when it ends its leases belong to `Gone`. `run[c]` is
where the Run stands with the call: `open` (it will be delivered again), waiting
for a timer, for a user (`asked`) or for an outside event (`waiting`), answered,
or failed.

`Reserve` is `reserve_tool_execution` with its four decisions. A granted call is
refused by a policy, sent to the provider, or, for a Group workspace mutation,
prepared, applied and finalized behind the fence. The second of these three
transactions keeps the receipt locked around a conditional storage write, which
may outlive its process (`LoseWrite`, `LateWrite`); others write the same file
(`OtherWrite`). `Archive` and `Settle` are `_settle_outcome`; `Disowned` is what a
step does that finds its receipt settled or owned by another. `Takeover`,
`ProductTakeover`, `ReconcileOperation`, `Probe`, `MarkUnavailable` and
`ReconcileEnvelope` are the ways a receipt left behind is settled. `SchedulePoll`
and `ResumePoll` are the poll timer, `UserConfirms` the endpoint that settles the
unknown outcome of a write by hand. The unknown outcome of a read is asked about as
well; nobody can settle it, and when the call is delivered again the Run waits.

Calls are of three kinds (`read`: effect read and policy safe; `write`; `group`),
which is what the code distinguishes. Results are classes of outcomes. Not
modelled: reconstruction of a deleted ledger row, A2A waits, the budget of media
calls (a `Refuse`), summaries and their size limits.

### Trigger queue

`row[o]` is the execution of an occurrence, `before[o]` the occurrences stamped
before it, which is the order of `scheduled_at` and not of the commits. `Stamp` is
the beginning of the registering transaction and `Refuse`, `Accept`, `Reject`,
`StartMeeting` are its ends; a rolled back one leaves nothing. `Claim` is the one
transaction of `claim_pending_trigger_executions`: it fails the rows of disabled
Triggers, then claims the head of each Agent's queue, unless the unique index
rejects it. Each claim has a task and a token that fences it. The task looks at its
authority without a lock (`Check`), commits a session with its opening message
without looking again (`OpenSession`), commits the model's answer with the row and
the Trigger locked (`Publish`), and ends with `Complete` or `Fail`; `Renew` runs beside
it. A Run ends at any time after its registration or never. If it ends at a terminal
checkpoint (`RunEnds`), `ProjectTerminal` writes its outcome once; a rejected start and
a cancel without checkpoint (`RunAborts`) are not projected.

`fire_count` is written under the Trigger's lock by `Accept`, and without one by a
meeting: `CallMeeting` loads it into `seen[o]` and `StartMeeting` writes `seen[o] + 1`,
whatever is stored by then. `SetEnabled`, `SetLimit` and `Rearm` are the owner's and
the Agent's changes of the Trigger. `tally[t]` is a history variable for the property
about the limit: the Runs registered since the count was last set back, and whether
a meeting has overwritten fires it had not loaded since.

`USER_AUTOMATION_EXECUTION_ENABLED` is taken as set; without it the daemon idles.
When schedules fire, who is authorized and what a batch contains are arbitrary
choices or left out: tasks of different claims are separate. Also left out:

* Fires of OKR report and collection Triggers (`mark_trigger_fired`,
  `evaluator.py:73`). They are consumed before anything is enqueued
  (`evaluator.py:141`, `171`), so these Triggers have no occurrences and no Runs.
* Concurrent registrations that PostgreSQL aborts, because both hold the Trigger's
  key lock and want its row lock; they leave nothing, like any other rollback.
* A2A wakes. They load the Trigger under an advisory lock and enable it again
  (`trigger_daemon.py:595`); what follows is an `Accept`.
* A Run that is resumed after an applied cancel (run `late_resume`) and so reaches a
  second terminal checkpoint, and a projection that raises at every attempt.
* Deletion of Triggers.

### Channel outbox

Rows are numbered in the order of `created_at`. A worker sends one message at a
time; the settling transaction is two steps (`BeginSettle`, `Commit`), because
`_set_latest_run_status` reads which message is the newest before it locks the Run.
`excused[d]` counts expired claims and lost answers, the only permitted reasons for
a duplicate. A row without message (`ClaimMissing`) is settled by the claim itself.
`DeliverWithoutRow` is a message that is not staged: its target failed
(`_record_failure`) or is on no external channel. It sets the Run's status at once, at
any moment.

### Credits

Transactions that lock the balance row are one step. `get_credit_balance` does not
lock it, so its repair of a missing grant is three steps (`ReadBalance`,
`CheckGrant`, `RepairGrant`). A round is a model request: `ReserveRound`, the
provider's decision, then `MarkReady` and `FinalizeRound`, or `ReleaseRound`.
`call[r].outcome` is what the provider did, which the request may never learn.
`Sweep` and `ResolveCompleted`/`ResolveNotAccepted` are the daemon and the operator;
the operator is assumed to have the provider's evidence. Orders are paid, refunded
in parts and clawed back; the unique index of migration 087 is a guard of
`RefundPaid`.

Not modelled: holds of media tasks (status `reserved`, expiry), downgrade orders,
the lifecycle of subscriptions beyond creation and cancellation by refund, pricing.

## 3. Runs

All worker runs use two slots and `MaxAttempts = 2` (`CrashIsRecovered` uses 3):
two is the least value at which a retry, an exhausted Command and an attempt used
by somebody else all occur. The scripts give the Commands of a behaviour, and TLC
enqueues them at every possible moment, or never. Two slots are enough for every
conflict of two workers; two processes give distinct claimants, one process with
two slots gives the shared claimant.

The other instances are chosen the same way. Tool ledger: two workers and a
reconciler can all want one receipt; three attempts are the code's limit; two faults
let a lost step be recovered by one that is lost too. Triggers: two occurrences of
one Trigger whose limit is 1 or 2 and may change, two claims each (a claim and a
reclaim), three invocation tasks in all (`MaxTasks`: both rows claimed and one of
them reclaimed), two invocation slots; the Trigger may be re-armed at any time.
Outbox: two messages (so that one is not the newest), two workers, two attempts, two
faults. Credits: two rounds whose debt is below or above the hold, one reader, one
top-up and one plan order, and amounts so small that every balance is short at
times; refunds in parts are covered by the theorems, whose amounts are arbitrary.

The instances of the passing runs have 19,000 to 980,000 distinct states. Deadlock
is not checked: a system whose Commands, messages and holds are all settled rests.

| Run | Instance | Checked |
|---|---|---|
| `inbox` | two Runs in one lane, a cancel, two processes, any transaction in any order | `LaneExclusive`, `SettlementIsFinal`, `LiveClaimIsNotTaken`, `LedgerSpec` |
| `worker_recovery` | start, resume, cancel of one Run with a lane; two processes; one fault of any kind | `StartSettlesBeforeResume`, `AbandonedLaneHasOwner`, `StableCheckpointIsFinal`, `FinishedRunNeverAdvances` |
| `worker_shared_claimant` | the same script; one process with two slots; two faults | `TypeOK`, `OneWriterPerThread`, `AppliedAtOwnBoundary` |
| `worker_liveness` | start, resume, cancel; a crash or a product failure; fair | `EveryCommandSettles`, `ProductsFollow` |
| `worker_lane_liveness` | two Runs in a lane; a crash or a product failure; fair | `LaneCoversExecution`, `InboxSpec`, `LaneIsReturned`, `QueuedStartProceeds` |
| `tool_ledger` | one call of each kind, a poll; two workers, a reconciler; two faults; fair | `TypeOK`, `NoRepeatedEffect`, `AnswersAgree`, `WorkspaceReceiptIsTrue`, `SettledReceiptIsFinal`, `EveryCallConcludes`, `WorkspaceReceiptSettles`, `PendingIsPolled` |
| `triggers` | two occurrences of a limited Trigger, one perhaps a meeting; the limit changes, the Trigger is re-armed, Runs end with or without a checkpoint; fair projection | `ProjectedRowIsFinal`, `OneOwnerPerAgent`, `NoAnswerAfterProjection`, `DueRunsKeepLimit`, `OccurrenceReachesRunOutcome` |
| `channel_delivery` | two messages, two workers, two faults; fair | `DuplicatesAreExcused`, `OutcomeIsFinal`, `EveryDeliverySettles`, `RunStatusSettles` |
| `credits` | two rounds, a reader, charges, two orders with refunds, a crash; fair | `TypeOK`, `HoldsAddUp`, `DebtChargedExactly`, `AcceptedDebtStands`, `HoldsAreCovered`, `EveryDebtIsSettled` |

The types of the inbox are part of `TypeOK` in `worker_shared_claimant`; those of the
trigger queue and the outbox are proved (section 4) and not repeated here.

Every property of a passing run has a mutant of the code in `PROJECT.json`
(a dropped guard, a missing release, a wrong candidate) that violates it.

### Disagreements between code and documents

Three runs state what a document or a check of the program says and find a
behaviour of the code that contradicts it. `decisions` is
`docs/single-agent-runtime/runtime-architecture-decisions-2026-07-15.md`.

| Run | Statement | What the code does |
|---|---|---|
| `late_resume` | decisions line 380: a resume after an accepted cancel is rejected | the preserved waiting checkpoint accepts it |
| `crash_recovery` | decisions line 1164: a new worker recovers from a crash at any Graph step | a crash between the decision to wait or end and its completion leaves an inconsistent checkpoint that no attempt passes |
| `credit_drift` | `check_credit_ledger_integrity`: the balance is the sum of the ledger | a balance read that repairs a missing grant writes back a stale balance and loses a top-up or charge committed in between |

Seven more, met while modelling, are visible in the modules and have no run of
their own:

* `persistence.py:812`: "A currently claimed start is never preempted here". The
  claim precedes the lock, so a cancel can meet a reclaimed start; the cancel is
  applied without a checkpoint and the start runs.
* decisions line 1172, an applied cancel stops the Run: a cancel that overtook an
  expired start is applied at its checkpoint, and the start is reclaimed and goes on.
* decisions lines 372-373, the cancel of a running Run is applied: the stopped
  invocation may leave an inconsistent checkpoint, and the cancel is rejected.
* `checkpoint_side_effects.py:500`, no second terminal outcome: only a cancel
  without checkpoint looks for an earlier one.
* `docs/unified-runtime-group-chat-e2e-test-cases.md`, TC-M05-002, one set of
  effects per occurrence: a registered row is `processing` without lease, which the
  daemon's claim query takes for an expired one (`executions.py:224`), so the Agent
  is invoked while the occurrence's Run is alive.
* `technical-design.md:296` of the runtime documents, the delivery status stays
  pending until the provider confirms or the limit is reached: an older message's
  outcome can overwrite it while the newest is pending, because the newest is read
  before the Run is locked (`channel_delivery.py:296`).
* `tests/test_subscription_billing.py:1956`, a second partial refund claws back
  again: the index of migration 087 admits one `refund_clawback` row per order
  (`billing_events.py:224`).

Three weaknesses of the trigger queue contradict no document, but limit what its
properties say:

* `ceo_orchestrator.py:1104-1159`: a meeting reads `fire_count` without a lock and
  writes it back plus one after the registration of its Run. A due occurrence or a
  second meeting that commits in between is no longer counted. `DueRunsKeepLimit` is
  therefore claimed only while no such write has happened since the last re-arming.
  The program creates its meeting Triggers without `max_fires`, so the limit suffers
  only where an owner or an Agent has set one.
* `checkpoint_side_effects.py:621` and `695-719`: a trigger Run whose start is rejected,
  or which is cancelled before it has a checkpoint, is not projected. Its row stays
  `processing` and is left to the daemon, which invokes the Agent for it. The row of a
  meeting has source `manual`, which the claim query does not take: it stays
  `processing` until its Trigger is disabled, and is ahead of the Agent's later rows in
  the queue. `OccurrenceReachesRunOutcome` is therefore about Runs that have reached
  their terminal checkpoint.
* `invoker.py:456-461` and `590-618`: the session of an invocation and its opening
  message are committed after a check without lock, so they may follow the projection
  of the Run. `NoAnswerAfterProjection` is about the answer and its copies only.

### Fairness

`RuntimeCommandDaemon` and `ProductReconcileDaemon` loop for ever and survive
every exception, so slots (`SlotStep`, `Claim`) and reconcilers are weakly fair;
leases run out by the clock; processes are restarted by their supervisor
(`restart: unless-stopped` style deployments), so `Restart` is fair.
`NodeDecides` is strongly fair: `model_turn_limit` bounds the model turns of a
Run, so a Graph cannot continue for ever without deciding. Nothing is assumed
about heartbeats or faults; faults are finite.

The tool step, the reconcilers, the poll timer, the delivery workers and the billing
daemon are loops of the same kind and are weakly fair; leases and claims of dead owners
run out. In the trigger queue only `ProjectTerminal` is fair, because the product
reconciler replays the handlers of a terminal checkpoint until they have succeeded;
Runs need not end (they may wait for a user), and nothing is assumed of the daemon.
Operators, users, other writers of a file and payments are not fair. In the tool
ledger, reading a settled receipt (`FindSettled`, `ReserveSettled`) is strongly
fair: an unknown outcome is reopened only after it has stood for a lease time, and
the call is delivered again within that time.

The liveness runs use one slot per process. With two slots sharing a claimant
they may release each other's claims again and again, and nothing in the code
prevents that from repeating; `PROJECT.json` records it as a hazard.

## 4. Proofs

All theorems hold for every value of the constants under the named assumptions
of the modules: `CommandsAssumption` and `StartAssumption` (positions are
numbers, a Run has one start and it comes first), `LanesAssumption`,
`WorkersAssumption`, `SlotsAssumption` (`No...` values are not members, functions
have their types), `CheckpointsAssumption` (a checkpoint id names its Command and
its disposition), `ToolAssumption` (roles are disjoint, a call is of one kind, a
read has at least one attempt), `TriggerAssumption`, `OutboxAssumption` and
`CreditAssumption` (finite sets where cardinalities are taken, amounts are natural
numbers).

* **Inbox.** `InboxTypeOK /\ LaneExclusive` is inductive: a lane is taken only by
  a claim that saw no other holder. `InboxTypeCorrect`, `InboxLaneExclusive`,
  `InboxSettlementIsFinal`, `InboxLiveClaimIsNotTaken` follow, one step per
  transaction. `InboxImplementsLedger` maps a Command to open, applied or
  rejected and a lane to the set of its holders, and shows each transaction to be
  a ledger step or a stutter.
* **Worker.** `TypeOK` is not inductive: a slot past its claim must be known to
  have a Command, a rejecting slot a code, an observed checkpoint must exist.
  `WorkerInv` is `TypeOK /\ SlotOwnsCommand /\ CodeIsChosen /\ LockIsHeld /\
  ObservesCheckpoint`. `LockIsHeld` (a slot in a locked phase is the holder of its
  Thread's lock) gives `OneWriterPerThread` at once. `WorkerImplementsInbox` shows
  each step of the composed system to be a transaction of the inbox, so that
  `WorkerInheritsInbox` carries lane exclusion over.
* **Checkpoints.** `CheckpointInv` adds `RunnableIsLatest` (an unfinished
  checkpoint can only be the newest of its Run), `LatestIsWritten`,
  `ExecutesFromLatest` (an executing slot owns the newest checkpoint or is about
  to write it, and the Run has not ended), `SettlesAtOwn` (an applying slot names
  its own stable checkpoint) and `AppliedAtOwnBoundary`. It rests on
  `OneWriterPerThread`: no other slot can move the checkpoint between the read and
  the settlement, even when the claim was lost. `WorkerAppliesAtOwnBoundary`,
  `WorkerKeepsStableCheckpoints` and `WorkerLeavesFinishedRuns` follow.
* **Lanes** (`LaneProofs`, on top of the two above). None of the three scheduling
  properties is inductive: each looks at slots in a Graph phase and rests on what was
  true when the Command was claimed.
  * `OrderInv`: the start of a Run is written before its other Commands, and a slot
    that holds a resume, in whatever phase, holds it because the start is settled;
    settlement is final, so `StartsSettleBeforeResumes` follows.
  * `PhaseInv` collects what the phase of a slot tells (a cancel never runs the Graph,
    products are those of applied Commands, only Commands with attempts left execute, a
    terminal checkpoint is the newest of its Run, what is not a start executes on a Run
    that has begun). `LaneKept` says that a Run which has begun, or whose start a slot
    is about to begin, holds its lane until it is abandoned or over.
    `LanesCoverExecution` follows.
  * `OwnerInv`: the Run of a rejected start that still holds its lane never begins
    (`KeptIsUnstarted`, `KeptIsNotRun`), and a cancel answers for it: it is open, asks
    for reconciliation, or is applied with products that no slot and no reconciler is
    about to mark (`KeptHasOwner`). The last part is what `AbandonedLaneHasOwner` lacks
    to be inductive. `CancelWorks` rests on the Thread lock.

  The lemmas `SlotArrives`, `RowChanges` and `LaneChanges` say once how a phase is
  reached, how a row may change and who moves a lane; the invariants are proved from
  them and not from the single actions.
* **Tool ledger** (`ToolLedgerProofs`). `LedgerInv` is `TypeOK` with `RowIsSound` (an
  attempt is counted before its effect, a call with side effects has one attempt, what
  was told is the status of the receipt), `MutationIsSound` (every sign of success of a
  Group mutation is left by a file that was written; the prepared version of the file
  outlives no write; a failed one has nothing on the way), `SlotIsSound` (a granted
  slot has its attempt before it; a slot that owns a prepared mutation, or is about to
  fail it, knows that nothing was or will be written) and `OneGrant` (no attempt is
  granted to two slots). `SlotIsSound` is about ownership at the time of the
  settlement, not of the grant: a lease may run out at any moment, and an owner that
  lost it is turned away by the fence. `EffectsAreNotRepeated`,
  `AnswersAgreeWithReceipts`, `WorkspaceReceiptsAreTrue` and `SettledReceiptsAreFinal`
  follow.
* **Triggers.** `QueueInv` is `TypeOK /\ RowInv /\ ProjectedRowIsFinal /\
  OneOwnerPerAgent`. `RowInv` says that only a processing row has a token or a lease,
  and that a row without committed registration has no Run; hence no claim, sweep or
  late task reaches a projected row. `OneOwnerPerAgent` rests on the unique index, not
  on the head query, which rows committed late defeat. `QueueSettledRow` and
  `QueueNoAnswerAfterProjection` are step properties from it: an answer needs a row with
  a token, and a projected row has none. `QueueDueRunsKeepLimit` needs `TallyInv` in
  addition: the Runs of a tally are registered ones, so a new one raises the
  cardinality, and while the tally is exact `fire_count` is that cardinality. `Accept`
  adds one to both under the lock, `Rearm` sets both back, and a meeting adds one to
  both exactly when it writes over the value it had loaded.
* **Outbox.** `OutboxInv` is `TypeOK` with `StagedInv`, `OwnerInv` (a worker named by a
  row is busy with it in that attempt), `BusyInv`, `LockInv` (one settlement per row),
  `AttemptInv` (attempts past the limit are paid for by faults; without it the type of
  the counter is not inductive) and `BudgetInv` (copies accepted plus sends under way
  stay below the excuses, with one to spare while the row may be claimed), which gives
  `OutboxDuplicatesAreExcused`.
* **Credits.** `CreditInv` is `TypeOK` with `RoundInv` (hold, request and charge of each
  round agree), `DriftInv` (the balance equals the ledger until the grant is repaired),
  `RefundInv` and `HoldsAreCovered`. `TypeOK` includes that balance and held Credits
  never become negative. `CreditDebtChargedExactly` and `CreditAcceptedDebtStands`
  follow from `RoundInv`. `HoldsAddUp` is a sum over the open holds. It is stated as the
  cardinality of a set of numbered Credits, so that no induction over the rounds is
  needed: `ExchangeCredits` shows that a step of one round removes the Credits of its
  old hold and adds those of the new one, and that the old ones are covered by the
  reserved amount, so that `max(..., 0)` never absorbs a difference.

All inductive invariants were checked with TLC as invariants before they were
proved.

Every safety property that a passing run checks is a theorem. Model-checked only: the
liveness properties (the prover does not handle fairness and ENABLED) and the three
statements that the code violates. The mutants show that each of them can fail.

## 5. Plan

In this order, each with its runs, mutants and proofs:

1. Proofs: an abstract specification of the Credits of a round (held, charged or
   freed once) shown to be implemented by `CreditLedger`, and the safety halves of the
   liveness arguments (what keeps a waiting Command, message or receipt a candidate
   until it is taken), which TLC sees on small instances only.
2. `RunGraph`: routes between compact, model, tool, verify and wait, with the
   model turn limit, shown to implement the node choice of `CommandWorker` (this
   would justify the strong fairness of `NodeDecides`).
3. `SessionContext` (compare-and-swap and watermarks), agent to agent waits,
   approvals.

### Not modelled

Most of the repository's lines are tool bodies and definitions (`agent_tools.py`,
`tool_seeder.py`, `builtin_tool_definitions.py`), media and deliverable workflows,
provider clients and adapters, HTTP handlers, and the frontend. They are I/O, text
and request-scoped updates: the models see them as an effect that happens, fails or
gets lost, and they have no state machine of their own that TLC could explore. The
map therefore covers a small share of all lines, and most of the protocol code in
the components above.

Components outside this plan are listed in `PROJECT.json` with the reason.

## 6. Running

    tlc -workers 2 -config MCWorkerRecovery.cfg MCCommandWorker
    tlapm CheckpointProofs.tla

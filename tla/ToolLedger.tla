------------------------------ MODULE ToolLedger ------------------------------
(***************************************************************************)
(* The Tool Execution Ledger (agent_runtime/tool_execution.py), the tool   *)
(* step that reserves, executes and settles a call (tool_step_service.py), *)
(* fenced Group workspace mutations (group_runtime_tools.py,               *)
(* group_file_service.py), the reconcilers that settle what a dead step    *)
(* left behind (tool_result_store.py, product_reconciler.py), and the      *)
(* timer that polls a pending operation (async_tool_poll.py).              *)
(*                                                                         *)
(* Every invocation of a step has a lease owner of its own.  A slot stands *)
(* for the owner of the invocation it runs; Gone for one that has ended.   *)
(***************************************************************************)
EXTENDS Naturals, FiniteSets

CONSTANTS
    Calls,          \* tool calls, by tool_call_id
    Proposed,       \* the calls a model response may contain
    Kind,           \* "read": read + safe; "group": Group workspace mutation; "write"
    Poll,           \* the synthetic poll call of a pending call
    NoCall,
    Workers,        \* concurrent invocations of the tool step
    Reconcilers,    \* concurrent passes of the product reconciler
    Gone, NoOwner,
    MaxAttempts,    \* SAFE_READ_MAX_ATTEMPTS
    MaxFaults       \* bound on crashes, stalls and failed database calls

ASSUME ToolAssumption ==
    /\ Proposed \subseteq Calls
    /\ Kind \in [Calls -> {"read", "write", "group"}]
    /\ Poll \in [Calls -> Calls \cup {NoCall}]
    /\ NoCall \notin Calls
    /\ Workers \cap Reconcilers = {}
    /\ {Gone, NoOwner} \cap (Workers \cup Reconcilers) = {}
    /\ Gone # NoOwner
    /\ MaxAttempts \in Nat \ {0}
    /\ MaxFaults \in Nat

Slots == Workers \cup Reconcilers

VARIABLES
    receipt,    \* agent_tool_executions
    envelope,   \* calls with a private result envelope in the Result Store
    revision,   \* the workspace revision of a Group mutation
    file,       \* its file: what it holds, and whether it is as when prepared
    inflight,   \* calls whose storage write outlived the process that sent it
    step,       \* the invocation of each slot
    run,        \* where the Run stands with each call
    scheduled,  \* async_poll_scheduled
    effects,    \* provider calls, or applied storage writes, of each call
    answers,    \* the outcomes of a call that were reported to the model
    faults

vars == <<receipt, envelope, revision, file, inflight, step, run, scheduled,
          effects, answers, faults>>

Terminal == {"succeeded", "failed", "unknown"}

Receipt ==
    [status : {"none", "started"} \cup Terminal,
     owner : Slots \cup {Gone, NoOwner},
     lease : {"none", "live", "expired"},
     attempts : 0..MaxAttempts,
     pending : {"no", "retry", "async"}]

Results ==
    {"none", "ok", "op_failed", "failed", "retryable", "unknown", "pending",
     "succeeded", "blocked", "error"}

Step ==
    [pc : {"idle", "granted", "calling", "prepared", "applied", "takeover",
           "reconcile", "probe", "unavailable", "returned", "archived", "telling"},
     call : Calls \cup {NoCall}, result : Results, role : {"step", "recovery", "product"}]

RunStates ==
    {"unborn", "open", "timer", "waiting", "asked", "answered", "failed"}

TypeOK ==
    /\ receipt \in [Calls -> Receipt]
    /\ envelope \subseteq Calls
    /\ revision \in [Calls -> {"none", "prepared", "final"}]
    /\ file \in [Calls -> [holds : {"old", "new", "other"}, intact : BOOLEAN, met : BOOLEAN]]
    /\ inflight \subseteq Calls
    /\ step \in [Slots -> Step]
    /\ run \in [Calls -> RunStates]
    /\ scheduled \subseteq Calls
    /\ effects \in [Calls -> Nat]
    /\ answers \in [Calls -> SUBSET Terminal]
    /\ faults \in 0..MaxFaults

Idle == [pc |-> "idle", call |-> NoCall, result |-> "none", role |-> "step"]

Init ==
    /\ receipt = [c \in Calls |->
                    [status |-> "none", owner |-> NoOwner, lease |-> "none",
                     attempts |-> 0, pending |-> "no"]]
    /\ envelope = {}
    /\ revision = [c \in Calls |-> "none"]
    /\ file = [c \in Calls |-> [holds |-> "old", intact |-> FALSE, met |-> FALSE]]
    /\ inflight = {}
    /\ step = [s \in Slots |-> Idle]
    /\ \E c \in Proposed : run = [e \in Calls |-> IF e = c THEN "open" ELSE "unborn"]
    /\ scheduled = {}
    /\ effects = [c \in Calls |-> 0]
    /\ answers = [c \in Calls |-> {}]
    /\ faults = 0

At(s, pc) == step[s].pc = pc
Owned(c, s) == receipt[c].status = "started" /\ receipt[c].owner = s
Fenced(c, s) == Owned(c, s) /\ receipt[c].lease = "live"

Started(s, attempts) ==
    [status |-> "started", owner |-> s, lease |-> "live", attempts |-> attempts,
     pending |-> "no"]

Closed(r, status) ==
    [r EXCEPT !.status = status, !.owner = NoOwner, !.lease = "none", !.pending = "no"]

\* Nobody holds a lease left by an invocation that has ended.
Abandoned(f, s) ==
    [c \in Calls |-> IF f[c].owner = s THEN [f[c] EXCEPT !.owner = Gone] ELSE f[c]]

Goto(s, pc) == step' = [step EXCEPT ![s].pc = pc]

GotoWith(s, pc, result) == step' = [step EXCEPT ![s].pc = pc, ![s].result = result]

Tell(s, result) == GotoWith(s, "telling", result)

\* The invocation ends without an answer; the call is delivered again.
Defer(s, f) == step' = [step EXCEPT ![s] = Idle] /\ receipt' = Abandoned(f, s)

(***************************************************************************)
(* reserve_tool_execution.                                                 *)
(***************************************************************************)

Begin(s, c, pc, result) ==
    step' = [step EXCEPT ![s] =
                [pc |-> pc, call |-> c, result |-> result, role |-> "step"]]

LeaseOver(c) == receipt[c].lease # "live"

CreateReceipt(s, c) ==
    /\ receipt[c].status = "none"
    /\ receipt' = [receipt EXCEPT ![c] = Started(s, 1)]
    /\ Begin(s, c, "granted", "none")

\* Mutant: one attempt too many.
MayRetryOneMore(r) == r.attempts <= MaxAttempts

MayRetry(r) == r.attempts < MaxAttempts

\* The last attempt failed in a way that was recorded: nothing runs behind the
\* receipt.  A receipt is left for a retry only below the limit.
RetryRead(s, c) ==
    LET r == receipt[c] IN
    /\ r.status = "started" /\ Kind[c] = "read"
    /\ r.pending = "retry" /\ LeaseOver(c)
    /\ MayRetry(r)
    /\ receipt' = [receipt EXCEPT ![c] = Started(s, r.attempts + 1)]
    /\ Begin(s, c, "granted", "none")

\* An unknown read asks for no confirmation when it is found again.
ReuseReceipt(s, c) ==
    LET r == receipt[c]
        unconfirmed == r.status = "unknown" /\ Kind[c] = "read" IN
    /\ \/ r.status \in Terminal
          /\ Begin(s, c, "telling", IF unconfirmed THEN "blocked" ELSE r.status)
       \/ r.status = "started" /\ r.pending = "async" /\ Begin(s, c, "telling", "pending")
    /\ UNCHANGED receipt

\* Mutant: a write whose lease has run out is executed again.
ReclaimWrite(s, c) ==
    LET r == receipt[c] IN
    /\ r.status = "started" /\ r.pending = "no"
    /\ LeaseOver(c)
    /\ receipt' = [receipt EXCEPT ![c] = Started(s, r.attempts)]
    /\ Begin(s, c, "granted", "none")

\* Mutant: a read waits for its owner, whose lease nobody looks at.
BlockedWithoutProbe(s, c) ==
    LET r == receipt[c] IN
    /\ r.status = "started" /\ r.pending = "no"
    /\ \/ Kind[c] = "write" /\ Begin(s, c, "telling", "blocked")
       \/ Kind[c] = "group" /\ Begin(s, c, "takeover", "none")
    /\ UNCHANGED receipt

\* A started receipt of another invocation.
BlockedReceipt(s, c) ==
    LET r == receipt[c] IN
    /\ r.status = "started" /\ r.pending = "no"
    /\ \/ Kind[c] = "write" /\ Begin(s, c, "telling", "blocked")
       \/ Kind[c] = "group" /\ Begin(s, c, "takeover", "none")
       \/ Kind[c] = "read" /\ LeaseOver(c) /\ Begin(s, c, "probe", "none")
    /\ UNCHANGED receipt

\* While a read's lease is live its delivery is deferred: nothing changes.
Reserve(s, c) ==
    /\ At(s, "idle")
    /\ run[c] = "open"
    /\ \/ CreateReceipt(s, c)
       \/ RetryRead(s, c)
       \/ ReuseReceipt(s, c)
       \/ BlockedReceipt(s, c)
    /\ UNCHANGED <<envelope, revision, file, inflight, run, scheduled, effects,
                   answers, faults>>

(***************************************************************************)
(* Executing a granted call.                                               *)
(***************************************************************************)

\* A policy, an approval or a limit settles the call without its provider.
Refuse(s) ==
    /\ At(s, "granted")
    /\ GotoWith(s, "returned", "failed")
    /\ UNCHANGED <<receipt, envelope, revision, file, inflight, run, scheduled,
                   effects, answers, faults>>

CallProvider(s) ==
    LET c == step[s].call IN
    /\ At(s, "granted")
    /\ Kind[c] # "group"
    /\ Goto(s, "calling")
    /\ effects' = [effects EXCEPT ![c] = @ + 1]
    /\ UNCHANGED <<receipt, envelope, revision, file, inflight, run, scheduled,
                   answers, faults>>

\* normalize_tool_outcome keeps retryable for reads only.  Any provider may say
\* that it does not know; an exception or an untyped result is a failure of a
\* read and an unknown outcome of anything else.
ProviderResults(c) ==
    {"ok", "failed", "unknown"}
    \cup (IF Kind[c] = "read" THEN {"retryable"} ELSE {})
    \cup (IF Poll[c] # NoCall THEN {"pending"} ELSE {})
    \cup (IF \E e \in Calls : Poll[e] = c THEN {"op_failed"} ELSE {})

ProviderReturns(s) ==
    /\ At(s, "calling")
    /\ \E result \in ProviderResults(step[s].call) : GotoWith(s, "returned", result)
    /\ UNCHANGED <<receipt, envelope, revision, file, inflight, run, scheduled,
                   effects, answers, faults>>

(***************************************************************************)
(* _execute_workspace_operation: three transactions, each behind the       *)
(* fence.  The second keeps the receipt locked around the storage write.   *)
(***************************************************************************)

Prepare(s) ==
    LET c == step[s].call IN
    /\ At(s, "granted")
    /\ Kind[c] = "group"
    /\ \/ /\ Fenced(c, s)
          /\ revision' = [revision EXCEPT ![c] = "prepared"]
          /\ file' = [file EXCEPT ![c].intact = TRUE]
          /\ Goto(s, "prepared")
          /\ UNCHANGED receipt
       \/ /\ ~Fenced(c, s)
          /\ Defer(s, receipt)
          /\ UNCHANGED <<revision, file>>
    /\ UNCHANGED <<envelope, inflight, run, scheduled, effects, answers, faults>>

\* The storage write is conditional on the version that was prepared.
Written(f) == [f EXCEPT !.holds = "new", !.intact = FALSE, !.met = TRUE]

Apply(s) ==
    LET c == step[s].call IN
    /\ At(s, "prepared")
    /\ \/ /\ Fenced(c, s)
          /\ file[c].intact
          /\ file' = [file EXCEPT ![c] = Written(@)]
          /\ effects' = [effects EXCEPT ![c] = @ + 1]
          /\ Goto(s, "applied")
          /\ UNCHANGED receipt
       \/ /\ Fenced(c, s)
          /\ ~file[c].intact
          /\ GotoWith(s, "returned", "failed")
          /\ UNCHANGED <<file, effects, receipt>>
       \/ /\ ~Fenced(c, s)
          /\ Defer(s, receipt)
          /\ UNCHANGED <<file, effects>>
    /\ UNCHANGED <<envelope, revision, inflight, run, scheduled, answers, faults>>

\* reconcile_runtime_workspace_operation
Proven(c) == revision[c] = "final" \/ (revision[c] = "prepared" /\ file[c].holds = "new")

Finalized(c) == revision' = [revision EXCEPT ![c] = "final"]

Finalize(s) ==
    LET c == step[s].call IN
    /\ At(s, "applied")
    /\ IF Fenced(c, s) /\ Proven(c)
       THEN Finalized(c) /\ GotoWith(s, "returned", "ok") /\ UNCHANGED receipt
       ELSE Defer(s, receipt) /\ UNCHANGED revision
    /\ UNCHANGED <<envelope, file, inflight, run, scheduled, effects, answers, faults>>

\* The process dies while its storage write is on the way; the write arrives later.
LoseWrite(s) ==
    LET c == step[s].call IN
    /\ At(s, "prepared")
    /\ Fenced(c, s)
    /\ faults < MaxFaults
    /\ faults' = faults + 1
    /\ inflight' = inflight \cup {c}
    /\ Defer(s, receipt)
    /\ UNCHANGED <<envelope, revision, file, run, scheduled, effects, answers>>

LateWrite(c) ==
    /\ c \in inflight
    /\ inflight' = inflight \ {c}
    /\ IF file[c].intact
       THEN /\ file' = [file EXCEPT ![c] = Written(@)]
            /\ effects' = [effects EXCEPT ![c] = @ + 1]
       ELSE UNCHANGED <<file, effects>>
    /\ UNCHANGED <<receipt, envelope, revision, step, run, scheduled, answers, faults>>

\* Somebody else writes the file; what it holds before the call is "old".
OtherWrite(c) ==
    /\ Kind[c] = "group"
    /\ receipt[c].status # "none"
    /\ file[c].holds # "other"
    /\ file' = [file EXCEPT ![c].holds = "other", ![c].intact = FALSE]
    /\ UNCHANGED <<receipt, envelope, revision, inflight, step, run, scheduled,
                   effects, answers, faults>>

(***************************************************************************)
(* Recovery of a Group mutation, by the redelivered step or by the product *)
(* reconciler, which also reopens an unknown outcome.                      *)
(***************************************************************************)

FindSettled(s) ==
    LET status == receipt[step[s].call].status IN
    /\ At(s, "takeover")
    /\ status \in Terminal
    /\ Tell(s, status)
    /\ UNCHANGED <<receipt, envelope, revision, file, inflight, run, scheduled,
                   effects, answers, faults>>

Takeover(s) ==
    LET c == step[s].call
        r == receipt[c] IN
    /\ At(s, "takeover")
    /\ \/ /\ r.status = "started" /\ ~LeaseOver(c)
          /\ Defer(s, receipt)
       \/ /\ r.status = "started" /\ LeaseOver(c)
          /\ receipt' = [receipt EXCEPT ![c] = Started(s, r.attempts)]
          /\ step' = [step EXCEPT ![s].pc = "reconcile", ![s].role = "recovery"]
    /\ UNCHANGED <<envelope, revision, file, inflight, run, scheduled, effects,
                   answers, faults>>

\* Mutant: only unknown outcomes are looked at again.
TakeoverUnknown(s, c) ==
    /\ At(s, "idle")
    /\ Kind[c] = "group"
    /\ receipt[c].status = "unknown"
    /\ receipt' = [receipt EXCEPT ![c] = Started(s, receipt[c].attempts)]
    /\ step' = [step EXCEPT ![s] =
                [pc |-> "reconcile", call |-> c, result |-> "none", role |-> "product"]]
    /\ UNCHANGED <<envelope, revision, file, inflight, run, scheduled, effects,
                   answers, faults>>

ProductTakeover(s, c) ==
    LET r == receipt[c] IN
    /\ At(s, "idle")
    /\ Kind[c] = "group"
    /\ \/ r.status = "started" /\ LeaseOver(c)
       \/ r.status = "unknown"
    /\ receipt' = [receipt EXCEPT ![c] = Started(s, r.attempts)]
    /\ step' = [step EXCEPT ![s] =
                [pc |-> "reconcile", call |-> c, result |-> "none", role |-> "product"]]
    /\ UNCHANGED <<envelope, revision, file, inflight, run, scheduled, effects,
                   answers, faults>>

\* Mutant: a mutation that cannot be proven has failed.
ReconcileAsFailed(s) ==
    LET c == step[s].call IN
    /\ At(s, "reconcile")
    /\ IF ~Fenced(c, s) THEN Defer(s, receipt) /\ UNCHANGED revision
       ELSE /\ UNCHANGED receipt
            /\ IF Proven(c) THEN Finalized(c) /\ GotoWith(s, "returned", "ok")
               ELSE UNCHANGED revision /\ GotoWith(s, "returned", "failed")
    /\ UNCHANGED <<envelope, file, inflight, run, scheduled, effects, answers, faults>>

\* A mutation that was never prepared has failed; one that was prepared and is
\* not proven stays unknown.
ReconcileOperation(s) ==
    LET c == step[s].call IN
    /\ At(s, "reconcile")
    /\ IF ~Fenced(c, s) THEN Defer(s, receipt) /\ UNCHANGED revision
       ELSE /\ UNCHANGED receipt
            /\ IF Proven(c) THEN Finalized(c) /\ GotoWith(s, "returned", "ok")
               ELSE /\ UNCHANGED revision
                    /\ GotoWith(s, "returned",
                            IF revision[c] = "none" THEN "failed" ELSE "unknown")
    /\ UNCHANGED <<envelope, file, inflight, run, scheduled, effects, answers, faults>>

(***************************************************************************)
(* _settle_outcome: archive a long result, then settle the receipt.        *)
(***************************************************************************)

Archive(s) ==
    LET c == step[s].call IN
    /\ At(s, "returned")
    /\ step[s].role # "product"
    /\ step[s].result = "ok"
    /\ \/ envelope' = envelope \cup {c} /\ Goto(s, "archived")
       \/ /\ UNCHANGED envelope
          /\ GotoWith(s, "archived", IF Kind[c] = "read" THEN "failed" ELSE "ok")
    /\ UNCHANGED <<receipt, revision, file, inflight, run, scheduled, effects,
                   answers, faults>>

StatusOf(result) ==
    CASE result = "ok" -> "succeeded"
      [] result = "unknown" -> "unknown"
      [] OTHER -> "failed"

Operation(c) == {e \in Calls : Poll[e] = c \/ e = c}

\* settle_async_operation_executions closes the pending receipts of the operation.
Settlement(c, result) ==
    [e \in Calls |->
        IF \/ e = c
           \/ /\ result \in {"ok", "op_failed"}
              /\ e \in Operation(c)
              /\ receipt[e].status = "started" /\ receipt[e].pending = "async"
        THEN Closed(receipt[e], StatusOf(result)) ELSE receipt[e]]

Parked(r, pending) == [r EXCEPT !.owner = NoOwner, !.lease = "none", !.pending = pending]

\* Mutant: a step reports its own result although the receipt is another's.
TellOwnResult(s) ==
    Tell(s, StatusOf(step[s].result)) /\ UNCHANGED receipt

\* What is told when the receipt turns out to be settled or owned by another.
Disowned(s) ==
    LET c == step[s].call
        result == step[s].result IN
    \/ /\ Kind[c] = "group"
       /\ step[s].role = "product" \/ (step[s].role = "step" /\ result = "ok")
       /\ Defer(s, receipt)
    \/ /\ step[s].role # "product"
       /\ Kind[c] = "group" => step[s].role = "recovery" \/ result # "ok"
       /\ Tell(s, "error") /\ UNCHANGED receipt
    \/ /\ receipt[c].status = StatusOf(result)
       /\ result \notin {"pending", "retryable"}
       /\ step[s].role # "product"
       /\ Tell(s, receipt[c].status) /\ UNCHANGED receipt

Settle(s) ==
    LET c == step[s].call
        result == step[s].result
        r == receipt[c] IN
    /\ step[s].pc \in {"returned", "archived"}
    /\ IF ~Owned(c, s) THEN Disowned(s)
       ELSE IF result = "pending"
       THEN receipt' = [receipt EXCEPT ![c] = Parked(r, "async")] /\ Tell(s, "pending")
       ELSE IF result = "retryable" /\ MayRetry(r)
       THEN Defer(s, [receipt EXCEPT ![c] = Parked(r, "retry")])
       ELSE IF step[s].role = "product" THEN Defer(s, Settlement(c, result))
       ELSE receipt' = Settlement(c, result) /\ Tell(s, StatusOf(result))
    /\ UNCHANGED <<envelope, revision, file, inflight, run, scheduled, effects,
                   answers, faults>>

\* The settling transaction fails: the receipt stays started.
SettleError(s) ==
    LET c == step[s].call IN
    /\ step[s].pc \in {"returned", "archived"}
    /\ faults < MaxFaults
    /\ faults' = faults + 1
    /\ IF Kind[c] = "group" /\ step[s].role # "recovery"
       THEN Defer(s, receipt)
       ELSE Tell(s, "error") /\ UNCHANGED receipt
    /\ UNCHANGED <<envelope, revision, file, inflight, run, scheduled, effects, answers>>

(***************************************************************************)
(* Results found in the Result Store after the lease has run out.          *)
(***************************************************************************)

Recoverable(c) ==
    /\ receipt[c].status = "started"
    /\ receipt[c].lease = "expired"
    /\ c \in envelope

\* ToolResultReconciler.run_once
ReconcileEnvelope(c) ==
    /\ Recoverable(c)
    /\ receipt' = [receipt EXCEPT ![c] = Closed(@, "succeeded")]
    /\ UNCHANGED <<envelope, revision, file, inflight, step, run, scheduled, effects,
                   answers, faults>>

\* The redelivered read looks for the envelope of the attempt that was lost.
Probe(s) ==
    LET c == step[s].call IN
    /\ At(s, "probe")
    /\ \/ /\ Recoverable(c)
          /\ receipt' = [receipt EXCEPT ![c] = Closed(@, "succeeded")]
          /\ Tell(s, "succeeded")
       \/ /\ c \in envelope
          /\ ~Recoverable(c)
          /\ Defer(s, receipt)
       \/ /\ c \notin envelope
          /\ Goto(s, "unavailable")
          /\ UNCHANGED receipt
    /\ UNCHANGED <<envelope, revision, file, inflight, run, scheduled, effects,
                   answers, faults>>

\* Mutant: the receipt is closed without looking at it again.
CloseUnavailable(s) ==
    /\ At(s, "unavailable")
    /\ receipt' = [receipt EXCEPT ![step[s].call] = Closed(@, "failed")]
    /\ Tell(s, "failed")
    /\ UNCHANGED <<envelope, revision, file, inflight, run, scheduled, effects,
                   answers, faults>>

MarkUnavailable(s) ==
    LET c == step[s].call
        r == receipt[c] IN
    /\ At(s, "unavailable")
    /\ \/ /\ r.status \in Terminal
          /\ Tell(s, r.status) /\ UNCHANGED receipt
       \/ /\ r.status = "started" /\ r.pending # "retry" /\ r.lease = "expired"
          /\ receipt' = [receipt EXCEPT ![c] = Closed(@, "failed")]
          /\ Tell(s, "failed")
       \/ /\ r.status = "started" /\ (r.pending = "retry" \/ r.lease # "expired")
          /\ Defer(s, receipt)
    /\ UNCHANGED <<envelope, revision, file, inflight, run, scheduled, effects,
                   answers, faults>>

(***************************************************************************)
(* The step's result reaches the checkpoint.                               *)
(***************************************************************************)

\* A user is asked about an unknown outcome, where the Run has one to ask; a read
\* that turns out unknown after its probe is an answer like any other.
Conclusions(c, result) ==
    CASE result \in {"succeeded", "failed"} -> {"answered"}
      [] result = "unknown" -> {"failed"}
                               \cup (IF Kind[c] # "group" THEN {"asked"} ELSE {})
                               \cup (IF Kind[c] = "read" THEN {"answered"} ELSE {})
      [] result = "pending" -> {"timer"}
      [] result = "blocked" -> {"waiting"}
      [] OTHER -> {"failed"}

Report(s) ==
    LET c == step[s].call
        result == step[s].result IN
    /\ At(s, "telling")
    /\ \E conclusion \in Conclusions(c, result) :
        run' = [run EXCEPT ![c] = IF @ = "open" THEN conclusion ELSE @]
    /\ answers' = [answers EXCEPT ![c] = @ \cup ({result} \cap Terminal)]
    /\ Defer(s, receipt)
    /\ UNCHANGED <<envelope, revision, file, inflight, scheduled, effects, faults>>

\* Mutant: like the other reconcilers, only receipts with an expired lease.
ScheduleExpired(c) ==
    /\ receipt[c].status = "started"
    /\ receipt[c].pending = "async"
    /\ receipt[c].lease = "expired"
    /\ c \notin scheduled
    /\ scheduled' = scheduled \cup {c}
    /\ UNCHANGED <<receipt, envelope, revision, file, inflight, step, run, effects,
                   answers, faults>>

\* AsyncToolPollScheduler.run_once writes one resume per pending receipt.
SchedulePoll(c) ==
    /\ receipt[c].status = "started"
    /\ receipt[c].pending = "async"
    /\ c \notin scheduled
    /\ scheduled' = scheduled \cup {c}
    /\ UNCHANGED <<receipt, envelope, revision, file, inflight, step, run, effects,
                   answers, faults>>

\* The resume reaches the waiting Run, which continues with the poll call.
ResumePoll(c) ==
    /\ c \in scheduled
    /\ run[c] = "timer"
    /\ run' = [run EXCEPT ![c] = "answered", ![Poll[c]] = "open"]
    /\ UNCHANGED <<receipt, envelope, revision, file, inflight, step, scheduled,
                   effects, answers, faults>>

\* reconcile_unknown_tool_execution, and the reply that resumes the Run.
UserConfirms(c, status) ==
    /\ Kind[c] = "write"
    /\ receipt[c].status = "unknown"
    /\ run[c] = "asked"
    /\ receipt' = [receipt EXCEPT ![c] = Closed(@, status)]
    /\ UNCHANGED <<envelope, revision, file, inflight, step, run, scheduled, effects,
                   answers, faults>>

UserResumes(c) ==
    /\ run[c] = "asked"
    /\ run' = [run EXCEPT ![c] = "open"]
    /\ UNCHANGED <<receipt, envelope, revision, file, inflight, step, scheduled,
                   effects, answers, faults>>

(***************************************************************************)
(* Time and faults.                                                        *)
(***************************************************************************)

\* The lease of an ended invocation runs out.
Expire(c) ==
    /\ receipt[c].lease = "live"
    /\ receipt[c].owner = Gone
    /\ receipt' = [receipt EXCEPT ![c].lease = "expired"]
    /\ UNCHANGED <<envelope, revision, file, inflight, step, run, scheduled, effects,
                   answers, faults>>

\* A step outlives its lease, which the step never renews.
Stall(c) ==
    /\ receipt[c].lease = "live"
    /\ receipt[c].owner \in Slots
    /\ faults < MaxFaults
    /\ faults' = faults + 1
    /\ receipt' = [receipt EXCEPT ![c].lease = "expired"]
    /\ UNCHANGED <<envelope, revision, file, inflight, step, run, scheduled, effects,
                   answers>>

\* The process dies, or the step meets an exception on which it defers.
Crash(s) ==
    /\ ~At(s, "idle")
    /\ faults < MaxFaults
    /\ faults' = faults + 1
    /\ Defer(s, receipt)
    /\ UNCHANGED <<envelope, revision, file, inflight, run, scheduled, effects, answers>>

Execute(s) ==
    Refuse(s) \/ CallProvider(s) \/ ProviderReturns(s) \/ Prepare(s) \/ Apply(s)
    \/ Finalize(s)

Recover(s) ==
    FindSettled(s) \/ Takeover(s) \/ ReconcileOperation(s) \/ Probe(s) \/ MarkUnavailable(s)

Finish(s) == Archive(s) \/ Settle(s) \/ Report(s)

Next ==
    \/ \E s \in Workers, c \in Calls : Reserve(s, c)
    \/ \E s \in Reconcilers, c \in Calls : ProductTakeover(s, c)
    \/ \E s \in Slots : Execute(s) \/ Recover(s) \/ Finish(s)
    \/ \E s \in Slots : LoseWrite(s) \/ SettleError(s) \/ Crash(s)
    \/ \E c \in Calls : LateWrite(c) \/ OtherWrite(c) \/ Expire(c) \/ Stall(c)
    \/ \E c \in Calls : ReconcileEnvelope(c) \/ SchedulePoll(c) \/ ResumePoll(c)
    \/ \E c \in Calls : UserResumes(c)
    \/ \E c \in Calls, status \in {"succeeded", "failed"} : UserConfirms(c, status)

Spec == Init /\ [][Next]_vars

ReserveSettled(s, c) == Reserve(s, c) /\ receipt[c].status \in Terminal

\* Steps run on, deliveries and reconcilers come round again, leases run out;
\* faults, other writers and users need not act.  An unknown outcome is reopened
\* only when it has stood for a lease time, within which the call is delivered
\* again: hence the strong fairness.
Fairness ==
    /\ \A s \in Slots : WF_vars(Execute(s) \/ Recover(s) \/ Finish(s))
    /\ \A s \in Workers : SF_vars(FindSettled(s))
    /\ \A c \in Calls :
        /\ WF_vars(\E s \in Workers : Reserve(s, c))
        /\ SF_vars(\E s \in Workers : ReserveSettled(s, c))
        /\ WF_vars(\E s \in Reconcilers : ProductTakeover(s, c))
        /\ WF_vars(Expire(c))
        /\ WF_vars(SchedulePoll(c))
        /\ WF_vars(ResumePoll(c))

FairSpec == Spec /\ Fairness

(***************************************************************************)
(* Properties.                                                             *)
(***************************************************************************)

\* A call with side effects reaches its provider, or changes the workspace, at
\* most once; a safe read is tried at most SAFE_READ_MAX_ATTEMPTS times.  This
\* survives crashes, expired leases, a second worker and a storage write that
\* arrives after its process has died.
NoRepeatedEffect ==
    \A c \in Calls : effects[c] <= IF Kind[c] = "read" THEN MaxAttempts ELSE 1

\* What the model was told about a call is what its receipt says, for good.
AnswersAgree ==
    \A c \in Calls : \A a \in answers[c] \ {"unknown"} : receipt[c].status = a

\* The receipt of a Group mutation tells the truth about the workspace: success
\* was reached by the file, and a mutation recorded as failed never arrives.
WorkspaceReceiptIsTrue ==
    \A c \in Calls :
        Kind[c] = "group" =>
        /\ receipt[c].status = "succeeded" => file[c].met
        /\ receipt[c].status = "failed" => effects[c] = 0 /\ c \notin inflight

\* A receipt that has succeeded or failed is never changed again.
SettledReceiptIsFinal ==
    [][\A c \in Calls :
        receipt[c].status \in {"succeeded", "failed"} => receipt'[c] = receipt[c]]_vars

\* Every delivered call is concluded: an answer, a question or a failure.
EveryCallConcludes == \A c \in Calls : run[c] = "open" ~> run[c] # "open"

\* A Group mutation does not stay started, also when its Run is over.
WorkspaceReceiptSettles ==
    \A c \in Calls :
        Kind[c] = "group" /\ receipt[c].status = "started" ~> receipt[c].status \in Terminal

\* A pending operation is polled, also when the step dies before its checkpoint,
\* unless another delivery of the call has already parked or failed the Run.
PendingIsPolled ==
    \A c \in {e \in Calls : Poll[e] # NoCall} :
        receipt[c].status = "started" /\ receipt[c].pending = "async"
        ~> run[Poll[c]] # "unborn" \/ run[c] \in {"waiting", "failed"}
=============================================================================

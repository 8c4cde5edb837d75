----------------------------- MODULE TriggerQueue -----------------------------
(***************************************************************************)
(* Trigger occurrences: registration together with a Runtime Run           *)
(* (services/trigger_runtime/queue.py, intake.py), the daemon that claims  *)
(* execution rows and invokes the Agent itself (executions.py,             *)
(* trigger_daemon.py, invoker.py), and the projection of a finished Run    *)
(* onto its row (agent_runtime/trigger_completion.py).                     *)
(***************************************************************************)
EXTENDS Naturals, FiniteSets

CONSTANTS
    Occurrences,    \* one (trigger_id, idempotency_key) each
    Meetings,       \* the occurrences start_ceo_meeting may register
    Triggers,
    TriggerOf,
    Agents,
    AgentOf,        \* the Agent of a Trigger
    Limits,         \* max_fires of a Trigger, 1 for type "once", 0 for no limit
    MaxConcurrency, \* TRIGGER_MAX_CONCURRENCY
    MaxClaims,      \* bound on the claims of one execution row
    MaxTasks,       \* bound on the invocation tasks of all rows
    NoToken

ASSUME TriggerAssumption ==
    /\ IsFiniteSet(Occurrences)
    /\ Meetings \subseteq Occurrences
    /\ TriggerOf \in [Occurrences -> Triggers]
    /\ AgentOf \in [Triggers -> Agents]
    /\ Limits \subseteq Nat
    /\ MaxConcurrency \in Nat
    /\ MaxClaims \in Nat
    /\ MaxTasks \in Nat
    /\ NoToken \notin Nat

VARIABLES
    row,        \* TriggerExecution rows
    before,     \* scheduled_at order: the occurrences stamped before this one
    trigger,    \* AgentTrigger.is_enabled, fire_count and max_fires
    seen,       \* the fire_count a meeting has loaded
    tally,      \* history: the Runs since fire_count was last set back
    task,       \* the invocation task of each claim
    run,        \* the Runtime Run of an occurrence
    receipt     \* occurrences whose terminal checkpoint has been projected

vars == <<row, before, trigger, seen, tally, task, run, receipt>>

Tokens == 1..MaxClaims

\* "stamped": the enqueueing transaction has chosen scheduled_at, uncommitted.
Statuses == {"absent", "stamped", "processing", "completed", "failed"}
Leases == {"none", "live", "expired"}

Row ==
    [status : Statuses, manual : BOOLEAN, token : Tokens \cup {NoToken},
     lease : Leases, claims : 0..MaxClaims]

\* A task checks its claim, opens a session, commits the model's answer, completes.
ActivePhases == {"claimed", "checked", "opened", "answered"}
TaskPhases == {"none", "done"} \cup ActivePhases

\* "aborted": ended without a terminal checkpoint.
RunStatuses == {"none", "live", "aborted", "completed", "failed"}

Trigger == [enabled : BOOLEAN, fires : Nat, limit : Limits]

\* exact: no meeting has overwritten a fire_count it had not loaded.
Tally == [runs : SUBSET Occurrences, exact : BOOLEAN]

TypeOK ==
    /\ row \in [Occurrences -> Row]
    /\ before \in [Occurrences -> SUBSET Occurrences]
    /\ trigger \in [Triggers -> Trigger]
    /\ seen \in [Occurrences -> Nat]
    /\ tally \in [Triggers -> Tally]
    /\ task \in [Occurrences -> [Tokens -> TaskPhases]]
    /\ run \in [Occurrences -> RunStatuses]
    /\ receipt \subseteq Occurrences

Init ==
    /\ row = [o \in Occurrences |->
                [status |-> "absent", manual |-> FALSE, token |-> NoToken,
                 lease |-> "none", claims |-> 0]]
    /\ before = [o \in Occurrences |-> {}]
    /\ \E limit \in [Triggers -> Limits] :
        trigger = [t \in Triggers |-> [enabled |-> TRUE, fires |-> 0, limit |-> limit[t]]]
    /\ seen = [o \in Occurrences |-> 0]
    /\ tally = [t \in Triggers |-> [runs |-> {}, exact |-> TRUE]]
    /\ task = [o \in Occurrences |-> [g \in Tokens |-> "none"]]
    /\ run = [o \in Occurrences |-> "none"]
    /\ receipt = {}

Status(o) == row[o].status
Enabled(o) == trigger[TriggerOf[o]].enabled
SameAgent(o, e) == AgentOf[TriggerOf[o]] = AgentOf[TriggerOf[e]]

Settled(r, status) == [r EXCEPT !.status = status, !.token = NoToken, !.lease = "none"]

(***************************************************************************)
(* Registration.  Concurrent deliveries of one occurrence wait on its      *)
(* unique key and return the committed row; a transaction that is rolled   *)
(* back leaves nothing, like one that has not begun.                       *)
(***************************************************************************)

\* start_ceo_meeting loads the Trigger without a lock.
CallMeeting(o) ==
    /\ o \in Meetings
    /\ Status(o) = "absent"
    /\ ~row[o].manual
    /\ row' = [row EXCEPT ![o].manual = TRUE]
    /\ seen' = [seen EXCEPT ![o] = trigger[TriggerOf[o]].fires]
    /\ UNCHANGED <<before, trigger, tally, task, run, receipt>>

Stamp(o) ==
    /\ Status(o) = "absent"
    /\ row' = [row EXCEPT ![o].status = "stamped"]
    /\ before' = [before EXCEPT ![o] = {e \in Occurrences : Status(e) # "absent"}]
    /\ UNCHANGED <<trigger, seen, tally, task, run, receipt>>

\* Mutant: the limit is compared one fire late.
AtCapacityOneLate(t) == trigger[t].limit > 0 /\ trigger[t].fires > trigger[t].limit

AtCapacity(t) == trigger[t].limit > 0 /\ trigger[t].fires >= trigger[t].limit

\* _mark_trigger_fired: the last permitted fire disables the Trigger.
Fired(t) ==
    LET fires == trigger[t].fires + 1
        last == trigger[t].limit > 0 /\ fires >= trigger[t].limit
    IN  [trigger[t] EXCEPT !.fires = fires, !.enabled = @ /\ ~last]

Refuse(o) ==
    LET t == TriggerOf[o] IN
    /\ ~row[o].manual
    /\ Status(o) = "stamped"
    /\ ~trigger[t].enabled \/ AtCapacity(t)
    /\ row' = [row EXCEPT ![o] = Settled(@, "failed")]
    /\ trigger' = [trigger EXCEPT ![t].enabled = @ /\ ~AtCapacity(t)]
    /\ UNCHANGED <<before, seen, tally, task, run, receipt>>

\* enqueue_trigger_runtime: the start Command, the row and the fire commit
\* together, with the Trigger locked since its limit was looked at.
Accept(o) ==
    LET t == TriggerOf[o] IN
    /\ ~row[o].manual
    /\ Status(o) = "stamped"
    /\ trigger[t].enabled
    /\ ~AtCapacity(t)
    /\ run' = [run EXCEPT ![o] = "live"]
    /\ row' = [row EXCEPT ![o] = Settled(@, "processing")]
    /\ trigger' = [trigger EXCEPT ![t] = Fired(t)]
    /\ tally' = [tally EXCEPT ![t].runs = @ \cup {o}]
    /\ UNCHANGED <<before, seen, task, receipt>>

\* The Agent, its model route or the Runtime is unavailable.
Reject(o) ==
    LET t == TriggerOf[o] IN
    /\ ~row[o].manual
    /\ Status(o) = "stamped"
    /\ trigger[t].enabled
    /\ ~AtCapacity(t)
    /\ row' = [row EXCEPT ![o] = Settled(@, "failed")]
    /\ UNCHANGED <<before, trigger, seen, tally, task, run, receipt>>

\* The meeting is registered whatever the Trigger's state is, and writes the
\* fire_count it loaded plus one over the one that is stored.
StartMeeting(o) ==
    LET t == TriggerOf[o] IN
    /\ row[o].manual
    /\ Status(o) = "stamped"
    /\ run' = [run EXCEPT ![o] = "live"]
    /\ row' = [row EXCEPT ![o] = Settled(@, "processing")]
    /\ trigger' = [trigger EXCEPT ![t].fires = seen[o] + 1]
    /\ seen' = [seen EXCEPT ![o] = 0]
    /\ tally' = [tally EXCEPT ![t].runs = @ \cup {o},
                              ![t].exact = @ /\ seen[o] = trigger[t].fires]
    /\ UNCHANGED <<before, task, receipt>>

\* An operator, the rate limiter or the expiry of a Trigger sets is_enabled; the
\* rate limiter's own update looks for a pending row and finds none.
SetEnabled(t, b) ==
    /\ trigger[t].enabled # b
    /\ trigger' = [trigger EXCEPT ![t].enabled = b]
    /\ UNCHANGED <<row, before, seen, tally, task, run, receipt>>

\* The owner changes max_fires, which leaves fire_count and is_enabled alone.
SetLimit(t, n) ==
    /\ trigger[t].limit # n
    /\ trigger' = [trigger EXCEPT ![t].limit = n]
    /\ UNCHANGED <<row, before, seen, tally, task, run, receipt>>

\* An Agent's tool sets the Trigger again: it is enabled and counts from 0.
Rearm(t) ==
    /\ trigger[t].fires > 0
    /\ trigger' = [trigger EXCEPT ![t].fires = 0, ![t].enabled = TRUE]
    /\ tally' = [tally EXCEPT ![t] = [runs |-> {}, exact |-> TRUE]]
    /\ UNCHANGED <<row, before, seen, task, run, receipt>>

(***************************************************************************)
(* claim_pending_trigger_executions.  One transaction fails the rows of    *)
(* disabled Triggers, then claims the head of every Agent's queue.  The    *)
(* partial unique index admits one claimed row per Agent; a conflict rolls *)
(* the whole transaction back.                                             *)
(***************************************************************************)

Unleased(o) == Status(o) = "processing" /\ row[o].lease # "live"

Swept == {o \in Occurrences : Unleased(o) /\ ~Enabled(o)}

Unfinished == {o \in Occurrences : Status(o) = "processing"} \ Swept

IsHead(o) ==
    \A e \in Unfinished :
        /\ SameAgent(e, o)
        /\ e \in before[o]
        => ~Enabled(e) /\ row[e].lease # "live"

Claimable ==
    {o \in Unfinished : ~row[o].manual /\ Unleased(o) /\ Enabled(o) /\ IsHead(o)}

ActiveTasks ==
    {c \in Occurrences \X Tokens : task[c[1]][c[2]] \in ActivePhases}

\* limit: the free invocation slots, oldest scheduled_at first.
Batches ==
    LET room == MaxConcurrency - Cardinality(ActiveTasks)
    IN  {B \in SUBSET Claimable :
            /\ Cardinality(B) <= room
            /\ \A e \in Claimable \ B : \A o \in B : e \notin before[o]
            /\ Cardinality(B) = room \/ B = Claimable}

Begun == {c \in Occurrences \X Tokens : task[c[1]][c[2]] # "none"}

\* Mutant: no unique index on an Agent's claimed row.
NoIndex(B) == FALSE

IndexConflict(B) ==
    \E o \in B, e \in Unfinished :
        e # o /\ SameAgent(e, o) /\ (e \in B \/ row[e].token # NoToken)

Claimed(r) ==
    [r EXCEPT !.claims = @ + 1, !.token = r.claims + 1, !.lease = "live"]

Claim ==
    /\ Cardinality(ActiveTasks) < MaxConcurrency
    /\ \E B \in Batches :
        /\ Swept \cup B # {}
        /\ ~IndexConflict(B)
        /\ \A o \in B : row[o].claims < MaxClaims
        /\ Cardinality(Begun) + Cardinality(B) <= MaxTasks
        /\ row' = [o \in Occurrences |->
                    IF o \in Swept THEN Settled(row[o], "failed")
                    ELSE IF o \in B THEN Claimed(row[o]) ELSE row[o]]
        /\ task' = [o \in Occurrences |->
                    IF o \in B THEN [task[o] EXCEPT ![row[o].claims + 1] = "claimed"]
                               ELSE task[o]]
    /\ UNCHANGED <<before, trigger, seen, tally, run, receipt>>

(***************************************************************************)
(* invoke_agent_for_triggers, one task per claim.                          *)
(***************************************************************************)

\* Mutant: the fence compares the attempt instead of status and token.
FenceByAttempt(o, g) == row[o].claims = g

Fence(o, g) == Status(o) = "processing" /\ row[o].token = g

\* Mutant: authorization looks at the Trigger only.
AuthorizedByTrigger(o, g) == Enabled(o)

\* validate_active_trigger_principal
Authorized(o, g) == Fence(o, g) /\ row[o].lease = "live" /\ Enabled(o)

\* A finished row disables a Trigger that is at capacity and has no other row open.
DisabledAtCapacity(o) ==
    LET t == TriggerOf[o]
        open == {e \in Occurrences \ {o} : TriggerOf[e] = t /\ Status(e) = "processing"}
    IN  [trigger EXCEPT ![t].enabled = @ /\ ~(AtCapacity(t) /\ open = {})]

\* mark_trigger_executions_completed and _failed change a row still owned.
Mark(o, g, status) ==
    IF Fence(o, g)
    THEN /\ row' = [row EXCEPT ![o] = Settled(@, status)]
         /\ trigger' = DisabledAtCapacity(o)
    ELSE UNCHANGED <<row, trigger>>

Proceed(o, g, phase) == task' = [task EXCEPT ![o][g] = phase]

\* validate_active_trigger_principal without locks, before the model is resolved.
Check(o, g) ==
    /\ task[o][g] = "claimed"
    /\ Authorized(o, g)
    /\ Proceed(o, g, "checked")
    /\ UNCHANGED <<row, before, trigger, seen, tally, run, receipt>>

\* The session and its opening message are committed without another look.
OpenSession(o, g) ==
    /\ task[o][g] = "checked"
    /\ Proceed(o, g, "opened")
    /\ UNCHANGED <<row, before, trigger, seen, tally, run, receipt>>

\* The model's answer, then its copy in the origin session or the A2A peer's: each
\* is committed with the rows behind Authorized locked.
Publish(o, g) ==
    /\ task[o][g] = "opened"
    /\ Authorized(o, g)
    /\ Proceed(o, g, "answered")
    /\ UNCHANGED <<row, before, trigger, seen, tally, run, receipt>>

\* The messages are committed: the renewal stops and the row is completed.
Complete(o, g) ==
    /\ task[o][g] = "answered"
    /\ Mark(o, g, "completed")
    /\ Proceed(o, g, "done")
    /\ UNCHANGED <<before, seen, tally, run, receipt>>

\* Authorization, the model call or a delivery fails, or the renewal finds the
\* fence lost and cancels the task.
Fail(o, g) ==
    /\ task[o][g] \in ActivePhases
    /\ Mark(o, g, "failed")
    /\ Proceed(o, g, "done")
    /\ UNCHANGED <<before, seen, tally, run, receipt>>

\* renew_trigger_execution_leases; an expired lease nobody took is extended too.
Renew(o, g) ==
    /\ task[o][g] \in ActivePhases
    /\ Fence(o, g)
    /\ row[o].lease = "expired"
    /\ row' = [row EXCEPT ![o].lease = "live"]
    /\ UNCHANGED <<before, trigger, seen, tally, task, run, receipt>>

\* The lease runs out: the task's process is stalled, or has died.
Expire(o) ==
    /\ row[o].lease = "live"
    /\ row' = [row EXCEPT ![o].lease = "expired"]
    /\ UNCHANGED <<before, trigger, seen, tally, task, run, receipt>>

Crash(o, g) ==
    /\ task[o][g] \in ActivePhases
    /\ Proceed(o, g, "done")
    /\ UNCHANGED <<row, before, trigger, seen, tally, run, receipt>>

(***************************************************************************)
(* The Runtime: the Run of an occurrence ends, or waits for ever.  A       *)
(* terminal checkpoint is projected once, keyed by its receipt message.    *)
(***************************************************************************)

RunEnds(o, status) ==
    /\ run[o] = "live"
    /\ run' = [run EXCEPT ![o] = status]
    /\ UNCHANGED <<row, before, trigger, seen, tally, task, receipt>>

\* The start is rejected, or the Run cancelled, before there is a checkpoint: the
\* handlers that project an occurrence are not reached.
RunAborts(o) ==
    /\ run[o] = "live"
    /\ run' = [run EXCEPT ![o] = "aborted"]
    /\ UNCHANGED <<row, before, trigger, seen, tally, task, receipt>>

\* Mutant: the projection skips a row that is already settled.
ProjectOpenRow(o) ==
    /\ run[o] \in {"completed", "failed"}
    /\ o \notin receipt
    /\ Status(o) = "processing"
    /\ row' = [row EXCEPT ![o] = Settled(@, run[o])]
    /\ receipt' = receipt \cup {o}
    /\ UNCHANGED <<before, trigger, seen, tally, task, run>>

ProjectTerminal(o) ==
    /\ run[o] \in {"completed", "failed"}
    /\ o \notin receipt
    /\ row' = [row EXCEPT ![o] = Settled(@, run[o])]
    /\ receipt' = receipt \cup {o}
    /\ UNCHANGED <<before, trigger, seen, tally, task, run>>

RuntimeStep(o) ==
    \/ \E status \in {"completed", "failed"} : RunEnds(o, status)
    \/ RunAborts(o)
    \/ ProjectTerminal(o)

TaskStep(o, g) ==
    Check(o, g) \/ OpenSession(o, g) \/ Publish(o, g) \/ Complete(o, g) \/ Fail(o, g)

Registration(o) ==
    CallMeeting(o) \/ Stamp(o) \/ Refuse(o) \/ Accept(o) \/ Reject(o) \/ StartMeeting(o)

Owner(t) ==
    \/ \E b \in BOOLEAN : SetEnabled(t, b)
    \/ \E n \in Limits : SetLimit(t, n)
    \/ Rearm(t)

Next ==
    \/ \E o \in Occurrences : Registration(o) \/ RuntimeStep(o) \/ Expire(o)
    \/ \E o \in Occurrences, g \in Tokens : TaskStep(o, g) \/ Renew(o, g) \/ Crash(o, g)
    \/ \E t \in Triggers : Owner(t)
    \/ Claim

Spec == Init /\ [][Next]_vars

\* The Runtime's workers project the terminal checkpoints there are; Runs, the
\* daemon, operators and faults need not move.
Fairness == \A o \in Occurrences : WF_vars(ProjectTerminal(o))

FairSpec == Spec /\ Fairness

(***************************************************************************)
(* Properties.                                                             *)
(***************************************************************************)

\* Once the terminal checkpoint of a Run has been projected, the row shows the
\* Run's outcome for good: no sweep, no late task of the daemon and no reclaim
\* overwrites it (trigger_completion.py against executions.py).
ProjectedRowIsFinal == \A o \in receipt : Status(o) = run[o]

\* At most one task of an Agent owns a row at a time, also when an occurrence
\* that was stamped earlier commits after a later one has been claimed.
OneOwnerPerAgent ==
    \A o, e \in Occurrences :
        SameAgent(o, e) /\ row[o].token # NoToken /\ row[e].token # NoToken => o = e

\* A settled row changes once more at most, when its Run is projected: a task
\* that lost its claim never settles, reopens or relabels the row.
SettledRowIsRevisedByRuntimeOnly ==
    [][\A o \in Occurrences :
        Status(o) \in {"completed", "failed"} /\ row'[o] # row[o]
        => o \in receipt' \ receipt]_vars

\* An answer is committed or delivered only by the task that owns the row, which
\* a projected row has none of: an answer that arrives after the Run's result is
\* dropped.  (The session's opening message is behind no lock and may be later.)
NoAnswerAfterProjection ==
    [][\A o \in Occurrences, g \in Tokens :
        task[o][g] # "answered" /\ task'[o][g] = "answered" => o \notin receipt]_vars

\* A due occurrence starts a Run only while fewer Runs than max_fires have been
\* registered since fire_count was last set back, however enqueues, meetings,
\* changes of the limit and re-arming interleave; a meeting that overwrote fires
\* it had not loaded (ceo_orchestrator.py) voids this until the next re-arming.
DueRunsKeepLimit ==
    [][\A o \in Occurrences :
        LET t == TriggerOf[o] IN
        /\ run[o] = "none" /\ run'[o] # "none" /\ ~row[o].manual
        /\ trigger[t].limit > 0
        /\ tally[t].exact
        => Cardinality(tally[t].runs) < trigger[t].limit]_vars

\* A Run that reaches a terminal checkpoint gives its occurrence its outcome, for
\* good, whatever the daemon did to the row in between.
OccurrenceReachesRunOutcome ==
    \A o \in Occurrences :
        run[o] \in {"completed", "failed"} ~> [](o \in receipt /\ Status(o) = run[o])
=============================================================================

----------------------------- MODULE ChannelOutbox -----------------------------
(***************************************************************************)
(* The outbox of one Run's external channel messages: staging together     *)
(* with the ChatMessage (agent_runtime/delivery.py), and the workers that  *)
(* claim a row, send it and record the outcome (channel_delivery.py).      *)
(***************************************************************************)
EXTENDS Naturals, FiniteSets

CONSTANTS
    MaxDeliveries,  \* the messages of the Run: acknowledgement, prompts, result
    Workers,        \* delivery workers, one send at a time each
    Gone, NoOwner,
    MaxAttempts,    \* AGENT_RUNTIME_CHANNEL_DELIVERY_MAX_ATTEMPTS
    MaxFaults       \* bound on crashes and on claims outlived by their send

ASSUME OutboxAssumption ==
    /\ MaxDeliveries \in Nat
    /\ IsFiniteSet(Workers)
    /\ {Gone, NoOwner} \cap Workers = {}
    /\ Gone # NoOwner
    /\ MaxAttempts \in Nat \ {0}
    /\ MaxFaults \in Nat

\* Deliveries in the order of created_at.
Deliveries == 1..MaxDeliveries

VARIABLES
    staged,         \* the number of rows staged so far
    row,            \* channel_deliveries
    deliveryStatus, \* agent_runs.delivery_status
    worker,
    accepted,       \* how often the provider has accepted each message
    excused,        \* how often a claim expired or the provider's answer was lost
    faults

vars == <<staged, row, deliveryStatus, worker, accepted, excused, faults>>

\* Only an attempt whose worker died or outlived its claim goes past the limit.
Attempts == 0..(MaxAttempts + MaxFaults)

Row ==
    [status : {"none", "pending", "claimed", "delivered", "failed"},
     owner : Workers \cup {Gone, NoOwner}, live : BOOLEAN, attempts : Attempts]

\* "settling": inside the transaction that records the outcome.
Worker ==
    [pc : {"idle", "sending", "sent", "settling"}, delivery : Deliveries \cup {0},
     attempt : Attempts, outcome : {"none", "delivered", "failed"}, latest : BOOLEAN]

TypeOK ==
    /\ staged \in 0..MaxDeliveries
    /\ row \in [Deliveries -> Row]
    /\ deliveryStatus \in {"none", "pending", "delivered", "failed"}
    /\ worker \in [Workers -> Worker]
    /\ accepted \in [Deliveries -> Nat]
    /\ excused \in [Deliveries -> Nat]
    /\ faults \in 0..MaxFaults

Idle ==
    [pc |-> "idle", delivery |-> 0, attempt |-> 0, outcome |-> "none", latest |-> FALSE]

Init ==
    /\ staged = 0
    /\ row = [d \in Deliveries |->
                [status |-> "none", owner |-> NoOwner, live |-> FALSE, attempts |-> 0]]
    /\ deliveryStatus = "none"
    /\ worker = [w \in Workers |-> Idle]
    /\ accepted = [d \in Deliveries |-> 0]
    /\ excused = [d \in Deliveries |-> 0]
    /\ faults = 0

\* deliver_runtime_message and stage_channel_delivery, with the Run locked.
\* MaxDeliveries counts the messages that are staged.
Stage ==
    /\ staged < MaxDeliveries
    /\ staged' = staged + 1
    /\ row' = [row EXCEPT ![staged + 1].status = "pending"]
    /\ deliveryStatus' = "pending"
    /\ UNCHANGED <<worker, accepted, excused, faults>>

\* A message whose target cannot be reached is a failure, and one whose session
\* is on no external channel is delivered: neither has a row.
DeliverWithoutRow(status) ==
    /\ deliveryStatus # status
    /\ deliveryStatus' = status
    /\ UNCHANGED <<staged, row, worker, accepted, excused, faults>>

Locked(d) == \E w \in Workers : worker[w].pc = "settling" /\ worker[w].delivery = d

\* Mutant: the claim query forgets claim_expires_at.
ClaimableAnyClaim(d) ==
    /\ row[d].status \in {"pending", "claimed"}
    /\ ~Locked(d)

\* Mutant: the claim query looks for pending rows only.
ClaimablePending(d) == row[d].status = "pending" /\ ~Locked(d)

\* A retry's backoff and the claim order only delay a claim.
Claimable(d) ==
    /\ \/ row[d].status = "pending"
       \/ row[d].status = "claimed" /\ ~row[d].live
    /\ ~Locked(d)

Claim(w, d) ==
    /\ worker[w].pc = "idle"
    /\ Claimable(d)
    /\ row' = [row EXCEPT ![d] = [status |-> "claimed", owner |-> w, live |-> TRUE,
                                  attempts |-> @.attempts + 1]]
    /\ worker' = [worker EXCEPT ![w] =
                    [Idle EXCEPT !.pc = "sending", !.delivery = d,
                                 !.attempt = row[d].attempts + 1]]
    /\ UNCHANGED <<staged, deliveryStatus, accepted, excused, faults>>

\* Mutant: only _complete refreshes the Run's delivery status.
SettlingOnSuccess(w, d, outcome) ==
    worker' = [worker EXCEPT ![w].pc = "settling", ![w].delivery = d,
                             ![w].outcome = outcome,
                             ![w].latest = (d = staged /\ outcome = "delivered")]

\* _set_latest_run_status reads the newest delivery before it locks the Run.
Settling(w, d, outcome) ==
    worker' = [worker EXCEPT ![w].pc = "settling", ![w].delivery = d,
                             ![w].outcome = outcome, ![w].latest = (d = staged)]

\* The claim finds the ChatMessage gone and settles the row itself.
ClaimMissing(w, d) ==
    /\ worker[w].pc = "idle"
    /\ Claimable(d)
    /\ Settling(w, d, "failed")
    /\ UNCHANGED <<staged, row, deliveryStatus, accepted, excused, faults>>

\* The provider accepts or refuses the message, or accepts it and the answer is lost.
Send(w) ==
    LET d == worker[w].delivery IN
    /\ worker[w].pc = "sending"
    /\ \E taken, confirmed \in BOOLEAN :
        /\ confirmed => taken
        /\ accepted' = [accepted EXCEPT ![d] = IF taken THEN @ + 1 ELSE @]
        /\ excused' = [excused EXCEPT ![d] = IF taken /\ ~confirmed THEN @ + 1 ELSE @]
        /\ worker' = [worker EXCEPT ![w].pc = "sent",
                            ![w].outcome = IF confirmed THEN "delivered" ELSE "failed"]
    /\ UNCHANGED <<staged, row, deliveryStatus, faults>>

\* Mutant: the settlement does not ask for the claim.
OwnsAnyRow(w, d) == w \in Workers /\ row[d].status # "none"

\* _locked_claim does not look at claim_expires_at.
OwnsClaim(w, d) == row[d].status = "claimed" /\ row[d].owner = w

LoseClaim(w) ==
    LET d == worker[w].delivery IN
    /\ worker[w].pc = "sent"
    /\ ~Locked(d)
    /\ ~OwnsClaim(w, d)
    /\ worker' = [worker EXCEPT ![w] = Idle]
    /\ UNCHANGED <<staged, row, deliveryStatus, accepted, excused, faults>>

GiveUp(w) == worker[w].attempt >= MaxAttempts

\* _fail before the last attempt: the row goes back to the queue.
Requeue(w) ==
    LET d == worker[w].delivery IN
    /\ worker[w].pc = "sent"
    /\ ~Locked(d)
    /\ OwnsClaim(w, d)
    /\ worker[w].outcome = "failed"
    /\ ~GiveUp(w)
    /\ row' = [row EXCEPT ![d].status = "pending", ![d].owner = NoOwner, ![d].live = FALSE]
    /\ worker' = [worker EXCEPT ![w] = Idle]
    /\ UNCHANGED <<staged, deliveryStatus, accepted, excused, faults>>

\* _complete, and _fail after the last attempt.
BeginSettle(w) ==
    LET d == worker[w].delivery IN
    /\ worker[w].pc = "sent"
    /\ ~Locked(d)
    /\ OwnsClaim(w, d)
    /\ worker[w].outcome = "delivered" \/ GiveUp(w)
    /\ Settling(w, d, worker[w].outcome)
    /\ UNCHANGED <<staged, row, deliveryStatus, accepted, excused, faults>>

Commit(w) ==
    LET d == worker[w].delivery
        outcome == worker[w].outcome IN
    /\ worker[w].pc = "settling"
    /\ row' = [row EXCEPT ![d].status = outcome, ![d].owner = NoOwner, ![d].live = FALSE]
    /\ deliveryStatus' = IF worker[w].latest THEN outcome ELSE deliveryStatus
    /\ worker' = [worker EXCEPT ![w] = Idle]
    /\ UNCHANGED <<staged, accepted, excused, faults>>

(***************************************************************************)
(* Time and faults.                                                        *)
(***************************************************************************)

Expired(d) ==
    /\ row[d].status = "claimed" /\ row[d].live
    /\ row' = [row EXCEPT ![d].live = FALSE]
    /\ excused' = [excused EXCEPT ![d] = @ + 1]
    /\ UNCHANGED <<staged, deliveryStatus, worker, accepted>>

\* The claim of a worker that has died runs out.
Expire(d) == row[d].owner = Gone /\ Expired(d) /\ UNCHANGED faults

\* A send takes longer than the claim's time to live.
Outlive(d) ==
    /\ row[d].owner # Gone
    /\ faults < MaxFaults
    /\ faults' = faults + 1
    /\ Expired(d)

\* The worker dies, or its transaction fails; nobody holds its claim any more.
Crash(w) ==
    /\ worker[w].pc # "idle"
    /\ faults < MaxFaults
    /\ faults' = faults + 1
    /\ worker' = [worker EXCEPT ![w] = Idle]
    /\ row' = [d \in Deliveries |->
                IF row[d].owner = w THEN [row[d] EXCEPT !.owner = Gone] ELSE row[d]]
    /\ UNCHANGED <<staged, deliveryStatus, accepted, excused>>

Work(w) == Send(w) \/ LoseClaim(w) \/ Requeue(w) \/ BeginSettle(w) \/ Commit(w)

Next ==
    \/ Stage
    \/ \E status \in {"delivered", "failed"} : DeliverWithoutRow(status)
    \/ \E w \in Workers, d \in Deliveries : Claim(w, d) \/ ClaimMissing(w, d)
    \/ \E w \in Workers : Work(w) \/ Crash(w)
    \/ \E d \in Deliveries : Expire(d) \/ Outlive(d)

Spec == Init /\ [][Next]_vars

\* Workers poll the table and finish what they began; claims run out.
Fairness ==
    /\ \A w \in Workers : WF_vars(Work(w))
    /\ \A d \in Deliveries :
        /\ WF_vars(\E w \in Workers : Claim(w, d))
        /\ WF_vars(Expire(d))

FairSpec == Spec /\ Fairness

(***************************************************************************)
(* Properties.                                                             *)
(***************************************************************************)

\* A row is recorded as delivered only when the provider has accepted the message.
DeliveredWasAccepted ==
    \A d \in Deliveries : row[d].status = "delivered" => accepted[d] > 0

\* At-least-once, and no more than that: each copy of a message beyond the first
\* is owed to a claim that expired or to an answer that was lost
\* (docs/single-agent-runtime/technical-design.md, 5.7).
DuplicatesAreExcused == \A d \in Deliveries : accepted[d] <= excused[d] + 1

\* The recorded outcome stands: no worker that lost its claim, and no second
\* claim, revises a row that is delivered or failed.
OutcomeIsFinal ==
    [][\A d \in Deliveries :
        row[d].status \in {"delivered", "failed"} => row'[d] = row[d]]_vars

\* Every staged message is delivered or given up.
EveryDeliverySettles ==
    \A d \in Deliveries :
        row[d].status = "pending" ~> row[d].status \in {"delivered", "failed"}

\* Once its last message is settled the Run is not shown as pending.
RunStatusSettles ==
    staged = MaxDeliveries ~> deliveryStatus \in {"delivered", "failed"}
=============================================================================

----------------------------- MODULE CreditLedger -----------------------------
(***************************************************************************)
(* The Credits of one tenant: the balance row and its ledger, the holds of *)
(* LLM rounds (credit_service.py, llm/caller.py), the sweep and the        *)
(* operator that settle what a round left behind                           *)
(* (billing_reconciliation.py, llm_credit_reconciliation.py), and the      *)
(* payment orders that grant and claw back (billing_events.py).            *)
(*                                                                         *)
(* A transaction that locks the balance row is one step.  The balance read *)
(* of get_credit_balance takes no lock: its repair is three steps.         *)
(***************************************************************************)
EXTENDS Integers, FiniteSetsExt

CONSTANTS
    Rounds,         \* provider requests, one hold each
    Readers,        \* requests that read the balance
    Topups,         \* orders of extra Credits
    PlanOrder,      \* the order of a plan
    TopupCredits, FreeCredits, PlanCredits,
    OrderAmount,    \* amount_cents of an order
    Holds,          \* what a round may be estimated at
    Debts,          \* what the provider may charge for it
    Costs,          \* what an action without hold may cost
    MaxFaults       \* bound on crashes of a round

ASSUME CreditAssumption ==
    /\ IsFiniteSet(Rounds)
    /\ PlanOrder \notin Topups
    /\ {TopupCredits, FreeCredits, PlanCredits, OrderAmount} \subseteq Nat \ {0}
    /\ Holds \cup Debts \cup Costs \subseteq Nat
    /\ MaxFaults \in Nat

Orders == Topups \cup {PlanOrder}

VARIABLES
    balance, reserved,  \* credit_balances
    ledger,             \* the sum of credit_transactions.delta
    hold,               \* credit_reservations, by round
    charges,            \* the consume rows of each reservation
    call,               \* the request that owns the round
    sub,                \* the tenant's subscription
    granted,            \* it has a subscribe row of its own
    reader,
    order,              \* payment_orders
    refunds,            \* refunded by the payment provider, not yet recorded
    faults

account == <<balance, reserved, ledger>>
rounds == <<hold, charges, call, faults>>
billing == <<sub, granted, order, refunds>>
vars == <<account, rounds, billing, reader>>

Open == {"provider_inflight", "settlement_ready"}

Hold ==
    [status : Open \cup {"none", "finalized", "released"}, amount : Nat]

\* "outcome" is what the provider did, whether or not the request learns of it.
Call ==
    [pc : {"idle", "calling", "answered", "rejected", "ambiguous", "marked", "done"},
     outcome : {"unknown", "accepted", "refused"}, estimate : Nat, debt : Nat]

Reader == [pc : {"idle", "balance_read", "repairing"}, seen : Nat, credits : Nat]

Away == [pc |-> "idle", seen |-> 0, credits |-> 0]

Order ==
    [status : {"pending", "paid", "partially_refunded", "refunded"},
     refunded : 0..OrderAmount, clawed : Nat]

TypeOK ==
    /\ balance \in Nat /\ reserved \in Nat /\ ledger \in Int
    /\ hold \in [Rounds -> Hold]
    /\ charges \in [Rounds -> Nat]
    /\ call \in [Rounds -> Call]
    /\ sub \in [status : {"none", "active", "canceled"}, plan : {"free", "paid"}]
    /\ granted \in BOOLEAN
    /\ reader \in [Readers -> Reader]
    /\ order \in [Orders -> Order]
    /\ refunds \in [Orders -> 0..OrderAmount]
    /\ faults \in 0..MaxFaults

Unused == [pc |-> "idle", outcome |-> "unknown", estimate |-> 0, debt |-> 0]

\* A tenant without subscription, one of an older migration whose Free grant is
\* missing, or one registered with its grant.
Init ==
    /\ sub \in [status : {"none", "active"}, plan : {"free"}]
    /\ granted \in {FALSE, sub.status = "active"}
    /\ balance = IF granted THEN FreeCredits ELSE 0
    /\ ledger = balance
    /\ reserved = 0
    /\ hold = [r \in Rounds |-> [status |-> "none", amount |-> 0]]
    /\ charges = [r \in Rounds |-> 0]
    /\ call = [r \in Rounds |-> Unused]
    /\ reader = [q \in Readers |-> Away]
    /\ order = [o \in Orders |-> [status |-> "pending", refunded |-> 0, clawed |-> 0]]
    /\ refunds = [o \in Orders |-> 0]
    /\ faults = 0

(***************************************************************************)
(* The subscription grant                                                  *)
(***************************************************************************)

CreditsPerPeriod == IF sub.plan = "paid" THEN PlanCredits ELSE FreeCredits

\* ensure_current_subscription_credit_grant_in_session looks for a subscribe row of
\* the subscription itself, whatever its orders granted; canceled ones count.
GrantMissing == sub.status # "none" /\ ~granted

MissingCredits == IF GrantMissing THEN CreditsPerPeriod ELSE 0

\* get_credit_balance: a plain read of the row.
ReadBalance(q) ==
    /\ reader[q].pc = "idle"
    /\ reader' = [reader EXCEPT ![q].pc = "balance_read", ![q].seen = balance]
    /\ UNCHANGED <<account, rounds, billing>>

CheckGrant(q) ==
    /\ reader[q].pc = "balance_read"
    /\ reader' = [reader EXCEPT
        ![q] = IF GrantMissing
               THEN [@ EXCEPT !.pc = "repairing", !.credits = CreditsPerPeriod]
               ELSE Away]
    /\ UNCHANGED <<account, rounds, billing>>

\* The commit writes the balance computed from the read, and the unique index of
\* the subscribe rows rejects a second repair.
RepairGrant(q) ==
    /\ reader[q].pc = "repairing"
    /\ \/ /\ ~granted
          /\ balance' = reader[q].seen + reader[q].credits
          /\ ledger' = ledger + reader[q].credits
          /\ granted' = TRUE
       \/ /\ granted
          /\ UNCHANGED <<balance, ledger, granted>>
    /\ reader' = [reader EXCEPT ![q] = Away]
    /\ UNCHANGED <<reserved, rounds, sub, order, refunds>>

(***************************************************************************)
(* Charges and holds                                                       *)
(***************************************************************************)

\* charge_credits_in_session; without the Credits the transaction is rolled back,
\* a repair included.
Charge(amount) ==
    /\ balance + MissingCredits - reserved >= amount
    /\ balance' = balance + MissingCredits - amount
    /\ ledger' = ledger + MissingCredits - amount
    /\ granted' = (granted \/ GrantMissing)
    /\ UNCHANGED <<reserved, rounds, sub, order, refunds, reader>>

\* reserve_llm_round_credits.
ReserveRound(r, amount) ==
    /\ call[r].pc = "idle"
    /\ balance + MissingCredits - reserved >= amount
    /\ balance' = balance + MissingCredits
    /\ ledger' = ledger + MissingCredits
    /\ granted' = (granted \/ GrantMissing)
    /\ reserved' = reserved + amount
    /\ hold' = [hold EXCEPT ![r] = [status |-> "provider_inflight", amount |-> amount]]
    /\ call' = [call EXCEPT ![r].pc = "calling", ![r].estimate = amount]
    /\ UNCHANGED <<charges, faults, sub, order, refunds, reader>>

\* The response, an explicit rejection, or an interruption after which the request
\* cannot know which of the two it was (llm_provider_may_have_accepted).
ProviderAnswers(r) ==
    /\ call[r].pc = "calling"
    /\ \E debt \in Debts, pc \in {"answered", "ambiguous"} :
        call' = [call EXCEPT ![r].pc = pc, ![r].outcome = "accepted", ![r].debt = debt]
    /\ UNCHANGED <<account, hold, charges, faults, billing, reader>>

ProviderRefuses(r) ==
    /\ call[r].pc = "calling"
    /\ \E pc \in {"rejected", "ambiguous"} :
        call' = [call EXCEPT ![r].pc = pc, ![r].outcome = "refused"]
    /\ UNCHANGED <<account, hold, charges, faults, billing, reader>>

\* max(..., 0)
NonNegative(n) == IF n < 0 THEN 0 ELSE n

\* mark_credit_reservation_settlement_ready_in_session: the hold becomes the debt,
\* also beyond the balance.
Marked(h, debt) ==
    IF h.status = "provider_inflight"
    THEN [status |-> "settlement_ready", amount |-> debt] ELSE h

ReservedWhenMarked(h, debt) ==
    IF h.status = "provider_inflight"
    THEN NonNegative(reserved + debt - h.amount) ELSE reserved

MarkReady(r) ==
    /\ call[r].pc = "answered"
    /\ hold' = [hold EXCEPT ![r] = Marked(@, call[r].debt)]
    /\ reserved' = ReservedWhenMarked(hold[r], call[r].debt)
    /\ call' = [call EXCEPT ![r].pc = "marked"]
    /\ UNCHANGED <<balance, ledger, charges, faults, billing, reader>>

\* Mutant: the look-up of an earlier consume row and the status are forgotten.
CanFinalizeTwice(r, h) ==
    h.status \in {"settlement_ready", "finalized"} /\ balance >= h.amount

\* Mutant: the balance is not compared with the debt.
CanFinalizeShort(r, h) == charges[r] = 0 /\ h.status = "settlement_ready"

\* finalize_reserved_credits_in_session of a hold that is h by now, with held
\* Credits reserved.
CanFinalize(r, h) ==
    charges[r] = 0 /\ h.status = "settlement_ready" /\ balance >= h.amount

Finalize(r, h, held) ==
    /\ CanFinalize(r, h)
    /\ balance' = balance - h.amount
    /\ ledger' = ledger - h.amount
    /\ reserved' = NonNegative(held - h.amount)
    /\ hold' = [hold EXCEPT ![r] = [h EXCEPT !.status = "finalized"]]
    /\ charges' = [charges EXCEPT ![r] = @ + 1]

\* settle_llm_round_credits goes on when the ledger cannot be written: the debt is
\* durable.
FinalizeRound(r) ==
    /\ call[r].pc = "marked"
    /\ \/ Finalize(r, hold[r], reserved)
       \/ /\ ~CanFinalize(r, hold[r])
          /\ UNCHANGED <<account, hold, charges>>
    /\ call' = [call EXCEPT ![r].pc = "done"]
    /\ UNCHANGED <<faults, billing, reader>>

\* Mutant: a second release is not recognised.
ReleasableTwice(h) == h.status \in {"provider_inflight", "released"}

\* release_reserved_credits_in_session with release_provider_inflight: a hold that is
\* no longer in flight is left alone.
Releasable(h) == h.status = "provider_inflight"

Release(r) ==
    /\ Releasable(hold[r])
    /\ hold' = [hold EXCEPT ![r].status = "released"]
    /\ reserved' = NonNegative(reserved - hold[r].amount)

\* Mutant: any failed request frees the hold.
FreesAlways(pc) == pc \in {"rejected", "ambiguous"}

\* release_llm_round_credits: only an explicit rejection frees the hold.
Frees(pc) == pc = "rejected"

ReleaseRound(r) ==
    /\ call[r].pc \in {"rejected", "ambiguous"}
    /\ \/ Frees(call[r].pc) /\ Release(r)
       \/ /\ ~(Frees(call[r].pc) /\ Releasable(hold[r]))
          /\ UNCHANGED <<hold, reserved>>
    /\ call' = [call EXCEPT ![r].pc = "done"]
    /\ UNCHANGED <<balance, ledger, charges, faults, billing, reader>>

\* The process dies, or the transaction it needs fails.
Crash(r) ==
    /\ faults < MaxFaults
    /\ call[r].pc \in {"answered", "rejected", "marked"}
    /\ faults' = faults + 1
    /\ call' = [call EXCEPT ![r].pc = "done"]
    /\ UNCHANGED <<account, hold, charges, billing, reader>>

(***************************************************************************)
(* Reconciliation                                                          *)
(***************************************************************************)

\* Mutant: the sweep looks at holds in flight only, and keeps them.
SweepInflightOnly(r) ==
    /\ hold[r].status = "provider_inflight"
    /\ UNCHANGED vars

\* expire_stale_credit_reservations, for one candidate: a durable debt is finalized
\* when the balance allows, a hold in flight is kept and reported.
Sweep(r) ==
    /\ Finalize(r, hold[r], reserved)
    /\ UNCHANGED <<call, faults, billing, reader>>

\* resolve_llm_credit_holds with the provider's evidence, in one transaction.
ResolveCompleted(r) ==
    /\ call[r].outcome = "accepted"
    /\ Finalize(r, Marked(hold[r], call[r].debt), ReservedWhenMarked(hold[r], call[r].debt))
    /\ UNCHANGED <<call, faults, billing, reader>>

ResolveNotAccepted(r) ==
    /\ call[r].outcome = "refused"
    /\ Release(r)
    /\ UNCHANGED <<balance, ledger, charges, call, faults, billing, reader>>

(***************************************************************************)
(* Payment orders                                                          *)
(***************************************************************************)

CreditsOf(o) == IF o = PlanOrder THEN PlanCredits ELSE TopupCredits

\* finalize_order_in_session: the grant is recorded under the order, and a plan
\* without active subscription gets a new one.
PayOrder(o) ==
    /\ order[o].status = "pending"
    /\ order' = [order EXCEPT ![o].status = "paid"]
    /\ balance' = balance + CreditsOf(o)
    /\ ledger' = ledger + CreditsOf(o)
    /\ \/ /\ o = PlanOrder
          /\ sub' = [status |-> "active", plan |-> "paid"]
          /\ granted' = (granted /\ sub.status = "active")
       \/ /\ o # PlanOrder
          /\ UNCHANGED <<sub, granted>>
    /\ UNCHANGED <<reserved, rounds, refunds, reader>>

\* The payment provider refunds part of an order; its event is delivered until the
\* transaction that records it commits.
ProviderRefunds(o, amount) ==
    /\ refunds[o] = 0
    /\ order[o].refunded + amount <= OrderAmount
    /\ refunds' = [refunds EXCEPT ![o] = amount]
    /\ UNCHANGED <<account, rounds, sub, granted, order, reader>>

RequestedClawback(o) ==
    LET refunded == order[o].refunded + refunds[o]
    IN NonNegative((CreditsOf(o) * refunded) \div OrderAmount - order[o].clawed)

\* Mutant: a refund takes what is held.
ClawbackHeld(o) == Min({RequestedClawback(o), balance})

\* Credits that are held or consumed stay.
Clawback(o) == Min({RequestedClawback(o), NonNegative(balance - reserved)})

\* refund_order_in_session of a paid order.  The unique index allows an order one
\* refund_clawback row: a second one aborts the transaction.
RefundPaid(o) ==
    /\ refunds[o] > 0
    /\ order[o].status \in {"paid", "partially_refunded"}
    /\ order[o].clawed = 0 \/ Clawback(o) = 0
    /\ LET refunded == order[o].refunded + refunds[o]
           full == refunded = OrderAmount
       IN /\ order' = [order EXCEPT ![o] =
                [status |-> IF full THEN "refunded" ELSE "partially_refunded",
                 refunded |-> refunded, clawed |-> @.clawed + Clawback(o)]]
          /\ sub' = IF full /\ o = PlanOrder /\ sub.status = "active"
                    THEN [sub EXCEPT !.status = "canceled"] ELSE sub
    /\ balance' = balance - Clawback(o)
    /\ ledger' = ledger - Clawback(o)
    /\ refunds' = [refunds EXCEPT ![o] = 0]
    /\ UNCHANGED <<reserved, rounds, granted, reader>>

\* A refund that overtakes the payment closes the order.
RefundUnpaid(o) ==
    /\ refunds[o] > 0
    /\ order[o].status \in {"pending", "refunded"}
    /\ order' = [order EXCEPT ![o].status = "refunded", ![o].refunded = OrderAmount]
    /\ refunds' = [refunds EXCEPT ![o] = 0]
    /\ UNCHANGED <<account, rounds, sub, granted, reader>>

Next ==
    \/ \E q \in Readers : ReadBalance(q) \/ CheckGrant(q) \/ RepairGrant(q)
    \/ \E amount \in Costs : Charge(amount)
    \/ \E r \in Rounds :
        \/ \E amount \in Holds : ReserveRound(r, amount)
        \/ ProviderAnswers(r) \/ ProviderRefuses(r)
        \/ MarkReady(r) \/ FinalizeRound(r) \/ ReleaseRound(r) \/ Crash(r)
        \/ Sweep(r) \/ ResolveCompleted(r) \/ ResolveNotAccepted(r)
    \/ \E o \in Orders :
        \/ PayOrder(o) \/ RefundPaid(o) \/ RefundUnpaid(o)
        \/ \E amount \in 1..OrderAmount : ProviderRefunds(o, amount)

Spec == Init /\ [][Next]_vars

\* The reconciliation daemon runs at an interval.
Fairness == \A r \in Rounds : WF_vars(Sweep(r))

FairSpec == Spec /\ Fairness

(***************************************************************************)
(* Properties                                                              *)
(***************************************************************************)

\* The Credits of the open reservations, each numbered within its own.
HeldCredits ==
    UNION {{r} \X (1..hold[r].amount) : r \in {q \in Rounds : hold[q].status \in Open}}

\* credit_balances.reserved is the sum of the open reservations, counted Credit by
\* Credit, whoever settles, releases or resizes them and in whatever order
\* (check_credit_ledger_integrity, reserved_drift).
HoldsAddUp == reserved = Cardinality(HeldCredits)

\* Request, sweep and operator may all settle a round: it is charged at most once,
\* exactly what the provider charged, and only if the provider accepted it.
DebtChargedExactly ==
    \A r \in Rounds :
        /\ charges[r] = (IF hold[r].status = "finalized" THEN 1 ELSE 0)
        /\ hold[r].status = "finalized" =>
            call[r].outcome = "accepted" /\ hold[r].amount = call[r].debt

\* What the provider accepted is never freed by an error, a crash or an expiry.
AcceptedDebtStands ==
    \A r \in Rounds :
        call[r].outcome = "accepted" => hold[r].status \in Open \cup {"finalized"}

\* As long as no round cost more than its estimate and no repair lost an update,
\* every open hold is covered by the balance: neither a charge, a new hold nor a
\* refund spends what is held.
HoldsAreCovered ==
    balance = ledger /\ (\A r \in Rounds : call[r].debt <= call[r].estimate)
    => reserved <= balance

\* A recorded debt is settled, or the balance is too small for it.
EveryDebtIsSettled ==
    \A r \in Rounds :
        hold[r].status = "settlement_ready"
        ~> hold[r].status = "finalized" \/ balance < hold[r].amount

\* check_credit_ledger_integrity (billing_reconciliation.py): the balance equals the
\* sum of the ledger.
BalanceMatchesLedger == balance = ledger
=============================================================================

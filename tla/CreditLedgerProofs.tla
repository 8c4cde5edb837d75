-------------------------- MODULE CreditLedgerProofs --------------------------
(***************************************************************************)
(* The Credits of a tenant, proved for every set of rounds, readers and    *)
(* orders and for every amount.                                            *)
(***************************************************************************)
EXTENDS CreditLedger, FiniteSetTheorems, TLAPS

\* What a hold and the request that owns it know of each other: only evidence of
\* the provider's answer moves a hold out of flight, and at the provider's price.
RoundOK(h, c, n) ==
    /\ n = (IF h.status = "finalized" THEN 1 ELSE 0)
    /\ c.pc = "idle" <=> h.status = "none"
    /\ c.outcome = "unknown" <=> c.pc \in {"idle", "calling"}
    /\ c.pc = "calling" => h.status = "provider_inflight"
    /\ c.pc \in {"answered", "marked"} => c.outcome = "accepted"
    /\ c.pc = "rejected" => c.outcome = "refused"
    /\ c.outcome # "accepted" => c.debt = 0
    /\ h.status = "provider_inflight" => h.amount = c.estimate
    /\ h.status \in {"settlement_ready", "finalized"}
        => c.outcome = "accepted" /\ h.amount = c.debt
    /\ h.status = "released" => c.outcome = "refused"

RoundInv == \A r \in Rounds : RoundOK(hold[r], call[r], charges[r])

\* Until the missing grant is repaired the balance is the sum of the ledger.
DriftInv ==
    /\ ~granted => balance = ledger
    /\ sub.status = "none" => ~granted
    /\ sub.status = "canceled" => order[PlanOrder].status # "pending"
    /\ \A q \in Readers : reader[q].pc = "repairing" => sub.status # "none"

\* The payment provider never refunds more than the order.
RefundInv == \A o \in Orders : order[o].refunded + refunds[o] <= OrderAmount

CreditInv == TypeOK /\ RoundInv /\ DriftInv /\ RefundInv /\ HoldsAreCovered

\* A tenant without rounds and orders.
LEMMA CreditInit == Init => CreditInv
  <1> SUFFICES ASSUME Init PROVE CreditInv
    OBVIOUS
  <1> USE CreditAssumption DEF Init, Unused, Away
  <1>1. granted \in BOOLEAN /\ balance \in Nat
    OBVIOUS
  <1>2. TypeOK
    BY <1>1 DEF TypeOK, Hold, Call, Reader, Order, Open
  <1>3. RoundInv
    BY DEF RoundInv, RoundOK
  <1>4. DriftInv
    BY <1>1 DEF DriftInv
  <1>5. HoldsAreCovered
    BY <1>1 DEF HoldsAreCovered
  <1>6. RefundInv
    BY DEF RefundInv
  <1> QED
    BY <1>2, <1>3, <1>4, <1>5, <1>6 DEF CreditInv

\* What max(..., 0) returns.
LEMMA NonNegativeType ==
    ASSUME NEW n \in Int
    PROVE  NonNegative(n) \in Nat /\ NonNegative(n) >= n /\ (n >= 0 => NonNegative(n) = n)
  BY DEF NonNegative

\* The repair owed to the tenant is a number of Credits.
LEMMA MissingCreditsType ==
    ASSUME CreditInv
    PROVE  /\ MissingCredits \in Nat
           /\ (granted \/ GrantMissing) \in BOOLEAN
           /\ CreditsPerPeriod \in Nat
           /\ MissingCredits # 0 => (granted \/ GrantMissing)
           /\ GrantMissing => sub.status # "none"
           /\ granted => MissingCredits = 0
  <1>1. granted \in BOOLEAN /\ GrantMissing \in BOOLEAN
    BY DEF CreditInv, TypeOK, GrantMissing
  <1>2. CreditsPerPeriod \in Nat
    BY CreditAssumption DEF CreditsPerPeriod
  <1> QED
    BY <1>1, <1>2 DEF MissingCredits, GrantMissing

\* A refund takes a number of Credits that are neither held nor consumed.
LEMMA ClawbackType ==
    ASSUME CreditInv, NEW o \in Orders
    PROVE  /\ Clawback(o) \in Nat
           /\ balance >= reserved => Clawback(o) <= balance - reserved
           /\ balance < reserved => Clawback(o) = 0
  <1> USE CreditAssumption DEF CreditInv
  <1>1. balance \in Nat /\ reserved \in Nat
    BY DEF TypeOK
  <1>2. /\ order[o].refunded + refunds[o] \in Nat
        /\ order[o].clawed \in Nat
        /\ CreditsOf(o) \in Nat
    BY DEF TypeOK, Order, CreditsOf
  <1>3. (CreditsOf(o) * (order[o].refunded + refunds[o])) \div OrderAmount \in Int
    BY <1>2
  <1>4. RequestedClawback(o) \in Nat
    BY <1>2, <1>3, NonNegativeType DEF RequestedClawback
  <1>5. NonNegative(balance - reserved) \in Nat
    BY <1>1, NonNegativeType
  <1> DEFINE a == RequestedClawback(o)
             b == NonNegative(balance - reserved)
  <1>6. Clawback(o) \in {a, b} /\ Clawback(o) <= b
    <2> HIDE DEF a, b
    <2>1. \E x \in {a, b} : \A y \in {a, b} : x =< y
      BY <1>4, <1>5 DEF a, b
    <2>2. Min({a, b}) \in {a, b} /\ \A y \in {a, b} : Min({a, b}) =< y
      BY <2>1 DEF Min
    <2> QED
      BY <2>2 DEF Clawback, a, b
  <1> QED
    BY <1>1, <1>4, <1>5, <1>6 DEF NonNegative

\* The steps of a reader.
LEMMA ReaderStep ==
    ASSUME CreditInv, NEW q \in Readers, ReadBalance(q) \/ CheckGrant(q) \/ RepairGrant(q)
    PROVE  CreditInv'
  <1> USE CreditAssumption DEF CreditInv, account, rounds, billing
  <1>1. UNCHANGED <<reserved, hold, charges, call, faults, sub, order, refunds>>
    BY DEF ReadBalance, CheckGrant, RepairGrant
  <1>2. reader[q].seen \in Nat /\ reader[q].credits \in Nat /\ balance \in Nat
    BY DEF TypeOK, Reader
  <1>3. reader' \in [Readers -> Reader]
    <2>1. CASE ReadBalance(q)
      BY <2>1, <1>2 DEF ReadBalance, TypeOK, Reader
    <2>2. CASE CheckGrant(q)
      BY <2>2, <1>2, MissingCreditsType DEF CheckGrant, TypeOK, Reader, Away
    <2>3. CASE RepairGrant(q)
      BY <2>3 DEF RepairGrant, TypeOK, Reader, Away
    <2> QED
      BY <2>1, <2>2, <2>3
  <1>r. \A p \in Readers : reader'[p].pc = "repairing" => sub'.status # "none"
    <2>1. CASE ReadBalance(q)
      BY <2>1, <1>1 DEF ReadBalance, TypeOK, Reader, DriftInv
    <2>2. CASE CheckGrant(q)
      BY <2>2, <1>1 DEF CheckGrant, GrantMissing, TypeOK, Reader, Away, DriftInv
    <2>3. CASE RepairGrant(q)
      BY <2>3, <1>1 DEF RepairGrant, TypeOK, Reader, Away, DriftInv
    <2> QED
      BY <2>1, <2>2, <2>3
  <1>4. CASE UNCHANGED <<balance, ledger, granted>>
    BY <1>1, <1>3, <1>r, <1>4 DEF TypeOK, RoundInv, DriftInv, RefundInv, HoldsAreCovered
  <1>5. CASE ~UNCHANGED <<balance, ledger, granted>>
    <2>1. /\ ~granted
          /\ balance' = reader[q].seen + reader[q].credits
          /\ ledger' = ledger + reader[q].credits
          /\ granted' = TRUE
          /\ sub.status # "none"
      BY <1>5 DEF DriftInv, ReadBalance, CheckGrant, RepairGrant
    <2>2. TypeOK'
      BY <1>1, <1>2, <1>3, <2>1 DEF TypeOK
    <2>3. RoundInv'
      BY <1>1 DEF RoundInv
    <2>4. DriftInv'
      BY <1>1, <1>r, <2>1 DEF DriftInv
    <2>5. HoldsAreCovered'
      BY <1>1, <1>2, <2>1 DEF HoldsAreCovered, DriftInv, TypeOK
    <2> QED
      BY <1>1, <2>2, <2>3, <2>4, <2>5 DEF RefundInv
  <1> QED
    BY <1>4, <1>5

\* A charge, and the hold of a new round.
LEMMA SpendStep ==
    ASSUME CreditInv,
           (\E amount \in Costs : Charge(amount))
           \/ (\E r \in Rounds, amount \in Holds : ReserveRound(r, amount))
    PROVE  CreditInv'
  <1> USE CreditAssumption DEF CreditInv, account, rounds, billing
  <1>0. /\ balance \in Nat /\ reserved \in Nat /\ ledger \in Int /\ granted \in BOOLEAN
        /\ MissingCredits \in Nat
        /\ MissingCredits # 0 => (granted \/ GrantMissing)
        /\ (granted \/ GrantMissing) \in BOOLEAN
        /\ GrantMissing => sub.status # "none"
        /\ ~(granted \/ GrantMissing) => ~granted /\ MissingCredits = 0
    BY MissingCreditsType DEF TypeOK
  <1>1. CASE \E amount \in Costs : Charge(amount)
    <2> PICK amount \in Costs : Charge(amount)
      BY <1>1
    <2>1. /\ balance' = balance + MissingCredits - amount /\ amount \in Nat
          /\ balance + MissingCredits - reserved >= amount
          /\ ledger' = ledger + MissingCredits - amount
          /\ granted' = (granted \/ GrantMissing)
          /\ UNCHANGED <<reserved, hold, charges, call, faults, sub, order, refunds, reader>>
      BY DEF Charge
    <2>2. TypeOK'
      BY <1>0, <2>1 DEF TypeOK
    <2>3. RoundInv'
      BY <2>1 DEF RoundInv
    <2>4. DriftInv'
      BY <1>0, <2>1 DEF DriftInv
    <2>5. HoldsAreCovered'
      BY <1>0, <2>1 DEF HoldsAreCovered
    <2> QED
      BY <2>1, <2>2, <2>3, <2>4, <2>5 DEF RefundInv
  <1>2. CASE \E r \in Rounds, amount \in Holds : ReserveRound(r, amount)
    <2> PICK r \in Rounds, amount \in Holds : ReserveRound(r, amount)
      BY <1>2
    <2> DEFINE h == [status |-> "provider_inflight", amount |-> amount]
    <2>1. /\ balance' = balance + MissingCredits /\ amount \in Nat
          /\ balance + MissingCredits - reserved >= amount
          /\ ledger' = ledger + MissingCredits
          /\ granted' = (granted \/ GrantMissing)
          /\ reserved' = reserved + amount
          /\ hold' = [hold EXCEPT ![r] = h]
          /\ call' = [call EXCEPT ![r].pc = "calling", ![r].estimate = amount]
          /\ call[r].pc = "idle"
          /\ UNCHANGED <<charges, faults, sub, order, refunds, reader>>
      BY DEF ReserveRound
    <2>2. PICK c : c = [call[r] EXCEPT !.pc = "calling", !.estimate = amount]
      OBVIOUS
    <2>3. /\ c \in Call /\ c.pc = "calling" /\ c.estimate = amount
          /\ c.outcome = call[r].outcome /\ c.debt = call[r].debt
          /\ h \in Hold /\ h.status = "provider_inflight" /\ h.amount = amount
      BY <2>1, <2>2 DEF TypeOK, Call, Hold, Open
    <2> HIDE DEF h
    <2>4. call' = [call EXCEPT ![r] = c]
      BY <2>1, <2>2 DEF TypeOK
    <2>5. TypeOK'
      <3>1. hold' \in [Rounds -> Hold] /\ call' \in [Rounds -> Call]
        <4>1. hold \in [Rounds -> Hold] /\ call \in [Rounds -> Call]
          BY DEF TypeOK
        <4>2. hold' = [hold EXCEPT ![r] = h] /\ h \in Hold /\ c \in Call
          BY <2>1, <2>3
        <4> HIDE DEF CreditInv
        <4> QED
          BY <4>1, <4>2, <2>4
      <3>2. balance' \in Nat /\ reserved' \in Nat /\ ledger' \in Int /\ granted' \in BOOLEAN
        BY <1>0, <2>1
      <3> QED
        BY <2>1, <3>1, <3>2 DEF TypeOK
    <2>6. RoundInv'
      <3> SUFFICES ASSUME NEW s \in Rounds PROVE RoundOK(hold'[s], call'[s], charges'[s])
        BY DEF RoundInv
      <3>1. CASE s # r
        BY <3>1, <2>1, <2>4 DEF RoundInv, TypeOK
      <3>2. CASE s = r
        <4>1. hold'[s] = h /\ call'[s] = c /\ charges'[s] = charges[r]
          BY <3>2, <2>1, <2>4 DEF TypeOK
        <4>2. RoundOK(hold[r], call[r], charges[r])
          BY DEF RoundInv
        <4> QED
          BY <4>1, <4>2, <2>1, <2>3 DEF RoundOK
      <3> QED
        BY <3>1, <3>2
    <2>7. DriftInv'
      BY <1>0, <2>1 DEF DriftInv
    <2>8. HoldsAreCovered'
      <3>1. \A s \in Rounds : s # r => call'[s] = call[s]
        BY <2>4 DEF TypeOK
      <3>2. call[r].debt = 0 /\ call[r].estimate \in Nat
        BY <2>1 DEF RoundInv, RoundOK, TypeOK, Call
      <3> QED
        BY <1>0, <2>1, <3>1, <3>2 DEF HoldsAreCovered
    <2> QED
      BY <2>1, <2>5, <2>6, <2>7, <2>8 DEF RefundInv
  <1> QED
    BY <1>1, <1>2

\* The provider's answer, and a crash: only the request changes.
LEMMA CallStep ==
    ASSUME CreditInv, NEW r \in Rounds,
           ProviderAnswers(r) \/ ProviderRefuses(r) \/ Crash(r)
    PROVE  CreditInv'
  <1> USE CreditAssumption DEF CreditInv, account, rounds, billing
  <1>1. UNCHANGED <<balance, reserved, ledger, hold, charges, sub, granted, order, refunds, reader>>
    BY DEF ProviderAnswers, ProviderRefuses, Crash
  <1>2. PICK c : /\ c \in Call
                 /\ call' = [call EXCEPT ![r] = c]
                 /\ RoundOK(hold[r], c, charges[r])
                 /\ c.debt <= c.estimate => call[r].debt <= call[r].estimate
                 /\ faults' \in 0..MaxFaults
    <2>0. /\ call[r] \in Call /\ faults \in 0..MaxFaults
          /\ RoundOK(hold[r], call[r], charges[r])
      BY DEF TypeOK, RoundInv
    <2>1. CASE ProviderAnswers(r)
      <3> PICK debt \in Debts, pc \in {"answered", "ambiguous"} :
            call' = [call EXCEPT ![r].pc = pc, ![r].outcome = "accepted", ![r].debt = debt]
        BY <2>1 DEF ProviderAnswers
      <3> WITNESS [call[r] EXCEPT !.pc = pc, !.outcome = "accepted", !.debt = debt]
      <3>1. call[r].pc = "calling" /\ faults' = faults
        BY <2>1 DEF ProviderAnswers
      <3> QED
        BY <2>0, <3>1 DEF TypeOK, Call, RoundOK
    <2>2. CASE ProviderRefuses(r)
      <3> PICK pc \in {"rejected", "ambiguous"} :
            call' = [call EXCEPT ![r].pc = pc, ![r].outcome = "refused"]
        BY <2>2 DEF ProviderRefuses
      <3> WITNESS [call[r] EXCEPT !.pc = pc, !.outcome = "refused"]
      <3>1. call[r].pc = "calling" /\ faults' = faults
        BY <2>2 DEF ProviderRefuses
      <3> QED
        BY <2>0, <3>1 DEF TypeOK, Call, RoundOK
    <2>3. CASE Crash(r)
      <3> WITNESS [call[r] EXCEPT !.pc = "done"]
      <3>1. /\ call[r].pc \in {"answered", "rejected", "marked"}
            /\ faults < MaxFaults /\ faults' = faults + 1
            /\ call' = [call EXCEPT ![r].pc = "done"]
        BY <2>3 DEF Crash
      <3> QED
        BY <2>0, <3>1 DEF TypeOK, Call, RoundOK
    <2> QED
      BY <2>1, <2>2, <2>3
  <1>3. call'[r] = c /\ \A s \in Rounds : s # r => call'[s] = call[s]
    BY <1>2 DEF TypeOK
  <1>4. TypeOK'
    BY <1>1, <1>2 DEF TypeOK
  <1>5. RoundInv'
    BY <1>1, <1>2, <1>3 DEF RoundInv
  <1>6. DriftInv'
    BY <1>1 DEF DriftInv
  <1>7. HoldsAreCovered'
    BY <1>1, <1>2, <1>3 DEF HoldsAreCovered
  <1> QED
    BY <1>1, <1>4, <1>5, <1>6, <1>7 DEF RefundInv

\* A step that settles, resizes or frees one hold.
HoldChange(r, h, c, n, d) ==
    /\ h \in Hold /\ c \in Call /\ n \in Nat
    /\ hold' = [hold EXCEPT ![r] = h]
    /\ call' = [call EXCEPT ![r] = c]
    /\ charges' = [charges EXCEPT ![r] = n]
    /\ RoundOK(h, c, n)
    /\ c.debt = call[r].debt /\ c.estimate = call[r].estimate
    /\ d \in Int /\ balance' = balance + d /\ ledger' = ledger + d
    /\ balance' \in Nat /\ reserved' \in Nat
    /\ balance >= reserved /\ c.debt <= c.estimate => balance' >= reserved'
    /\ UNCHANGED <<faults, sub, granted, order, refunds, reader>>

\* Such a step keeps the invariant.
LEMMA HoldStep ==
    ASSUME CreditInv, NEW r \in Rounds, NEW h, NEW c, NEW n, NEW d, HoldChange(r, h, c, n, d)
    PROVE  CreditInv'
  <1> USE DEF CreditInv, HoldChange
  <1>1. /\ hold'[r] = h /\ call'[r] = c /\ charges'[r] = n
        /\ \A s \in Rounds : s # r =>
            hold'[s] = hold[s] /\ call'[s] = call[s] /\ charges'[s] = charges[s]
    BY DEF TypeOK
  <1>2. balance' = ledger' <=> balance = ledger
    <2>1. balance \in Int /\ ledger \in Int /\ d \in Int
      BY DEF TypeOK
    <2>2. balance' = balance + d /\ ledger' = ledger + d
      OBVIOUS
    <2> HIDE DEF CreditInv, HoldChange
    <2> QED
      BY <2>1, <2>2
  <1>3. TypeOK'
    BY DEF TypeOK
  <1>4. RoundInv'
    BY <1>1 DEF RoundInv
  <1>5. DriftInv'
    BY <1>2 DEF DriftInv
  <1>6. HoldsAreCovered'
    BY <1>1, <1>2 DEF HoldsAreCovered, TypeOK
  <1> QED
    BY <1>3, <1>4, <1>5, <1>6 DEF RefundInv

\* The debt is recorded at the provider's price.
LEMMA MarkReadyStep ==
    ASSUME CreditInv, NEW r \in Rounds, MarkReady(r)
    PROVE  CreditInv'
  <1>1. /\ hold[r] \in Hold /\ call[r] \in Call /\ charges[r] \in Nat
        /\ balance \in Nat /\ reserved \in Nat /\ ledger \in Int
        /\ RoundOK(hold[r], call[r], charges[r])
    BY DEF CreditInv, TypeOK, RoundInv
  <1>2. /\ call[r].pc = "answered"
        /\ hold' = [hold EXCEPT ![r] = Marked(hold[r], call[r].debt)]
        /\ reserved' = ReservedWhenMarked(hold[r], call[r].debt)
        /\ call' = [call EXCEPT ![r].pc = "marked"]
        /\ UNCHANGED <<balance, ledger, charges, faults, sub, granted, order, refunds, reader>>
    BY DEF MarkReady, billing, CreditInv, TypeOK
  <1>3. PICK h, c : h = Marked(hold[r], call[r].debt) /\ c = [call[r] EXCEPT !.pc = "marked"]
    OBVIOUS
  <1>4. /\ c \in Call /\ c.pc = "marked" /\ c.outcome = call[r].outcome
        /\ c.debt = call[r].debt /\ c.estimate = call[r].estimate
    BY <1>1, <1>3 DEF Call
  <1>5. h \in Hold /\ RoundOK(h, c, charges[r])
    BY <1>1, <1>2, <1>3, <1>4 DEF Marked, Hold, Call, Open, RoundOK
  <1>6. /\ hold' = [hold EXCEPT ![r] = h] /\ call' = [call EXCEPT ![r] = c]
        /\ charges' = [charges EXCEPT ![r] = charges[r]]
    BY <1>2, <1>3 DEF CreditInv, TypeOK
  <1>7. reserved' \in Nat /\ (call[r].debt <= call[r].estimate => reserved' <= reserved)
    BY <1>1, <1>2 DEF ReservedWhenMarked, NonNegative, Hold, Call, RoundOK
  <1>8. /\ 0 \in Int /\ balance' = balance + 0 /\ ledger' = ledger + 0
        /\ balance' \in Nat /\ reserved' \in Nat
        /\ balance >= reserved /\ c.debt <= c.estimate => balance' >= reserved'
    BY <1>1, <1>2, <1>4, <1>7 DEF Call
  <1>9. HoldChange(r, h, c, charges[r], 0)
    BY <1>8, <1>1, <1>2, <1>4, <1>5, <1>6, <1>7 DEF HoldChange
  <1> QED
    BY <1>9, HoldStep

\* The transaction of finalize_reserved_credits_in_session, for a hold that is
\* settlement_ready already or is marked first.
LEMMA FinalizeStep ==
    ASSUME CreditInv, NEW r \in Rounds, NEW h, NEW held, NEW c \in Call,
           \/ (h = hold[r] /\ held = reserved)
           \/ /\ h = Marked(hold[r], call[r].debt)
              /\ held = ReservedWhenMarked(hold[r], call[r].debt)
              /\ call[r].outcome = "accepted",
           Finalize(r, h, held),
           c = call[r] \/ (c = [call[r] EXCEPT !.pc = "done"] /\ call[r].pc = "marked"),
           call' = [call EXCEPT ![r] = c],
           UNCHANGED <<faults, sub, granted, order, refunds, reader>>
    PROVE  CreditInv'
  <1>1. /\ hold[r] \in Hold /\ call[r] \in Call /\ charges[r] \in Nat
        /\ balance \in Nat /\ reserved \in Nat /\ ledger \in Int
        /\ RoundOK(hold[r], call[r], charges[r])
    BY DEF CreditInv, TypeOK, RoundInv
  <1>2. /\ charges[r] = 0 /\ h.status = "settlement_ready" /\ balance >= h.amount
        /\ balance' = balance - h.amount
        /\ ledger' = ledger - h.amount
        /\ reserved' = NonNegative(held - h.amount)
        /\ hold' = [hold EXCEPT ![r] = [h EXCEPT !.status = "finalized"]]
        /\ charges' = [charges EXCEPT ![r] = charges[r] + 1]
    BY DEF Finalize, CanFinalize, CreditInv, TypeOK
  <1>3. /\ h \in Hold /\ held \in Nat
        /\ call[r].outcome = "accepted" /\ h.amount = call[r].debt
        /\ call[r].debt <= call[r].estimate => held <= reserved
    BY <1>1, <1>2 DEF Marked, ReservedWhenMarked, NonNegative, Hold, Call, Open, RoundOK
  <1>4. PICK k : k = [h EXCEPT !.status = "finalized"]
    OBVIOUS
  <1>5. k \in Hold /\ k.status = "finalized" /\ k.amount = h.amount
    BY <1>3, <1>4 DEF Hold
  <1>6. /\ c.debt = call[r].debt /\ c.estimate = call[r].estimate
        /\ c.outcome = call[r].outcome
        /\ c.pc = call[r].pc \/ (c.pc = "done" /\ call[r].pc = "marked")
    BY <1>1 DEF Call
  <1>7. RoundOK(k, c, charges[r] + 1)
    BY <1>1, <1>2, <1>3, <1>5, <1>6 DEF RoundOK, Hold
  <1>8. /\ balance' \in Nat /\ ledger' \in Int /\ reserved' \in Nat
        /\ -h.amount \in Int /\ balance' = balance + (-h.amount)
        /\ ledger' = ledger + (-h.amount)
        /\ balance >= reserved /\ c.debt <= c.estimate => balance' >= reserved'
    BY <1>1, <1>2, <1>3, <1>6 DEF NonNegative, Hold, Call
  <1>9. HoldChange(r, k, c, charges[r] + 1, -h.amount)
    BY <1>1, <1>2, <1>4, <1>5, <1>6, <1>7, <1>8 DEF HoldChange
  <1> QED
    BY <1>9, HoldStep

\* A hold is freed only on evidence that the provider did not accept the round.
LEMMA ReleaseStep ==
    ASSUME CreditInv, NEW r \in Rounds, NEW c \in Call, Release(r),
           call[r].outcome = "refused",
           c = call[r] \/ (c = [call[r] EXCEPT !.pc = "done"] /\ call[r].pc = "rejected"),
           call' = [call EXCEPT ![r] = c],
           UNCHANGED <<balance, ledger, charges, faults, sub, granted, order, refunds, reader>>
    PROVE  CreditInv'
  <1>1. /\ hold[r] \in Hold /\ call[r] \in Call /\ charges[r] \in Nat
        /\ balance \in Nat /\ reserved \in Nat /\ ledger \in Int
        /\ RoundOK(hold[r], call[r], charges[r])
    BY DEF CreditInv, TypeOK, RoundInv
  <1>2. PICK k : k = [hold[r] EXCEPT !.status = "released"]
    OBVIOUS
  <1>3. /\ hold[r].status = "provider_inflight"
        /\ hold' = [hold EXCEPT ![r] = k]
        /\ charges' = [charges EXCEPT ![r] = charges[r]]
        /\ reserved' = NonNegative(reserved - hold[r].amount)
    BY <1>2 DEF Release, Releasable, CreditInv, TypeOK
  <1>4. k \in Hold /\ k.status = "released" /\ k.amount = hold[r].amount
    BY <1>1, <1>2 DEF Hold
  <1>5. /\ c.debt = call[r].debt /\ c.estimate = call[r].estimate
        /\ c.outcome = call[r].outcome
        /\ c.pc = call[r].pc \/ (c.pc = "done" /\ call[r].pc = "rejected")
    BY <1>1 DEF Call
  <1>6. RoundOK(k, c, charges[r])
    BY <1>1, <1>3, <1>4, <1>5 DEF RoundOK
  <1>7. reserved' \in Nat /\ reserved' <= reserved
    BY <1>1, <1>3 DEF NonNegative, Hold
  <1>8. /\ 0 \in Int /\ balance' = balance + 0 /\ ledger' = ledger + 0
        /\ balance' \in Nat /\ reserved' \in Nat
        /\ balance >= reserved /\ c.debt <= c.estimate => balance' >= reserved'
    BY <1>1, <1>5, <1>7 DEF Call
  <1>9. HoldChange(r, k, c, charges[r], 0)
    BY <1>8, <1>1, <1>3, <1>4, <1>5, <1>6, <1>7 DEF HoldChange
  <1> QED
    BY <1>9, HoldStep

\* A request that ends without touching its hold.
LEMMA EndStep ==
    ASSUME CreditInv, NEW r \in Rounds,
           call[r].pc \in {"marked", "rejected", "ambiguous"},
           call' = [call EXCEPT ![r].pc = "done"],
           UNCHANGED <<balance, reserved, ledger, hold, charges, faults, sub, granted,
                       order, refunds, reader>>
    PROVE  CreditInv'
  <1>1. /\ hold[r] \in Hold /\ call[r] \in Call /\ charges[r] \in Nat
        /\ balance \in Nat /\ reserved \in Nat /\ ledger \in Int
        /\ RoundOK(hold[r], call[r], charges[r])
    BY DEF CreditInv, TypeOK, RoundInv
  <1>2. PICK c : c = [call[r] EXCEPT !.pc = "done"]
    OBVIOUS
  <1>3. /\ call' = [call EXCEPT ![r] = c]
        /\ hold' = [hold EXCEPT ![r] = hold[r]]
        /\ charges' = [charges EXCEPT ![r] = charges[r]]
    BY <1>2 DEF CreditInv, TypeOK
  <1>4. /\ c \in Call /\ c.pc = "done" /\ c.outcome = call[r].outcome
        /\ c.debt = call[r].debt /\ c.estimate = call[r].estimate
    BY <1>1, <1>2 DEF Call
  <1>5. RoundOK(hold[r], c, charges[r])
    BY <1>1, <1>4 DEF RoundOK
  <1>8. /\ 0 \in Int /\ balance' = balance + 0 /\ ledger' = ledger + 0
        /\ balance' \in Nat /\ reserved' \in Nat
        /\ balance >= reserved /\ c.debt <= c.estimate => balance' >= reserved'
    BY <1>1, <1>4 DEF Call
  <1>9. HoldChange(r, hold[r], c, charges[r], 0)
    BY <1>8, <1>1, <1>3, <1>4, <1>5 DEF HoldChange
  <1> QED
    BY <1>9, HoldStep

\* Payments and refunds leave the rounds and the holds alone.
LEMMA OrderStep ==
    ASSUME CreditInv, NEW o \in Orders,
           \/ PayOrder(o) \/ RefundPaid(o) \/ RefundUnpaid(o)
           \/ \E amount \in 1..OrderAmount : ProviderRefunds(o, amount)
    PROVE  CreditInv'
  <1> USE CreditAssumption DEF CreditInv, account, rounds, billing
  <1>0. /\ UNCHANGED <<reserved, hold, charges, call, faults, reader>>
        /\ balance \in Nat /\ reserved \in Nat /\ ledger \in Int
        /\ order[o] \in Order /\ refunds[o] \in 0..OrderAmount
        /\ OrderAmount \in Nat /\ PlanOrder \in Orders
    BY DEF PayOrder, RefundPaid, RefundUnpaid, ProviderRefunds, TypeOK, Orders
  <1>1. RoundInv'
    BY <1>0 DEF RoundInv
  <1>2. CASE PayOrder(o)
    <2>1. CreditsOf(o) \in Nat
      BY DEF CreditsOf
    <2>2. /\ order[o].status = "pending"
          /\ order' = [order EXCEPT ![o].status = "paid"]
          /\ balance' = balance + CreditsOf(o) /\ ledger' = ledger + CreditsOf(o)
          /\ refunds' = refunds
      BY <1>2 DEF PayOrder
    <2>3. [order[o] EXCEPT !.status = "paid"] \in Order
      BY <1>0 DEF Order
    <2>4. order' \in [Orders -> Order]
      BY <2>2, <2>3 DEF TypeOK
    <2>5. \/ o = PlanOrder /\ sub' = [status |-> "active", plan |-> "paid"]
             /\ granted' = (granted /\ sub.status = "active")
          \/ o # PlanOrder /\ sub' = sub /\ granted' = granted
      BY <1>2 DEF PayOrder
    <2>s. /\ sub' \in [status : {"none", "active", "canceled"}, plan : {"free", "paid"}]
          /\ granted' \in BOOLEAN
      <3>1. CASE o = PlanOrder
        BY <3>1, <2>5
      <3>2. CASE o # PlanOrder
        BY <3>2, <2>5 DEF TypeOK
      <3> QED
        BY <3>1, <3>2
    <2>6. TypeOK'
      BY <1>0, <2>1, <2>2, <2>4, <2>s DEF TypeOK
    <2>r. RefundInv'
      <3>1. order'[o].refunded = order[o].refunded
            /\ \A p \in Orders : p # o => order'[p] = order[p]
        BY <1>0, <2>2 DEF TypeOK, Order
      <3> QED
        BY <2>2, <3>1 DEF RefundInv
    <2>7. DriftInv'
      <3>1. CASE o = PlanOrder
        <4>1. sub.status = "active" \/ sub.status = "none"
          BY <3>1, <2>2 DEF DriftInv, TypeOK
        <4>2. ~granted' => ~granted
          BY <3>1, <2>5, <4>1 DEF DriftInv, TypeOK
        <4>3. sub'.status = "active"
          BY <3>1, <2>5
        <4> QED
          BY <4>2, <4>3, <1>0, <2>1, <2>2 DEF DriftInv
      <3>2. CASE o # PlanOrder
        <4>1. sub' = sub /\ granted' = granted /\ order'[PlanOrder] = order[PlanOrder]
          BY <3>2, <2>2, <2>5, <1>0 DEF TypeOK
        <4> QED
          BY <4>1, <1>0, <2>1, <2>2 DEF DriftInv
      <3> QED
        BY <3>1, <3>2
    <2>8. HoldsAreCovered'
      BY <1>0, <2>1, <2>2 DEF HoldsAreCovered
    <2> QED
      BY <1>1, <2>6, <2>r, <2>7, <2>8
  <1>3. CASE RefundPaid(o)
    <2>1. PICK amount : amount = Clawback(o)
      OBVIOUS
    <2>2. /\ amount \in Nat
          /\ balance >= reserved => amount <= balance - reserved
          /\ balance < reserved => amount = 0
      BY <2>1, ClawbackType
    <2>3. PICK new :
            new = [status |-> IF order[o].refunded + refunds[o] = OrderAmount
                              THEN "refunded" ELSE "partially_refunded",
                   refunded |-> order[o].refunded + refunds[o],
                   clawed |-> order[o].clawed + amount]
      OBVIOUS
    <2>4. /\ order' = [order EXCEPT ![o] = new]
          /\ balance' = balance - amount /\ ledger' = ledger - amount
          /\ refunds' = [refunds EXCEPT ![o] = 0] /\ granted' = granted
          /\ sub' = sub \/ (o = PlanOrder /\ sub.status = "active"
                            /\ sub' = [sub EXCEPT !.status = "canceled"])
      BY <1>3, <2>1, <2>3 DEF RefundPaid, TypeOK
    <2>5. new \in Order /\ new.status # "pending" /\ new.refunded <= OrderAmount
      BY <1>0, <2>2, <2>3, <2>4 DEF Order, RefundInv
    <2>r. RefundInv'
      <3>1. /\ order'[o] = new /\ refunds'[o] = 0 /\ new.refunded \in Int
            /\ \A p \in Orders : p # o => order'[p] = order[p] /\ refunds'[p] = refunds[p]
        BY <1>0, <2>4, <2>5 DEF TypeOK, Order
      <3> QED
        BY <2>5, <3>1 DEF RefundInv
    <2>6. /\ order' \in [Orders -> Order] /\ refunds' \in [Orders -> 0..OrderAmount]
          /\ balance' \in Nat /\ ledger' \in Int
          /\ sub' \in [status : {"none", "active", "canceled"}, plan : {"free", "paid"}]
      BY <1>0, <2>2, <2>4, <2>5 DEF TypeOK
    <2>7. TypeOK'
      BY <1>0, <2>4, <2>6 DEF TypeOK
    <2>8. DriftInv'
      <3>1. order'[PlanOrder] = new \/ order'[PlanOrder] = order[PlanOrder]
        BY <1>0, <2>4 DEF TypeOK
      <3>2. sub' = sub \/ (sub'.status = "canceled" /\ order'[PlanOrder] = new /\ sub.status = "active")
        BY <1>0, <2>4 DEF TypeOK
      <3>3. balance = ledger => balance' = ledger'
        BY <1>0, <2>2, <2>4
      <3> QED
        BY <1>0, <2>4, <2>5, <3>1, <3>2, <3>3 DEF DriftInv
    <2>9. HoldsAreCovered'
      BY <1>0, <2>2, <2>4 DEF HoldsAreCovered
    <2> QED
      BY <1>1, <2>r, <2>7, <2>8, <2>9
  <1>4. CASE RefundUnpaid(o)
    <2>1. PICK new : new = [order[o] EXCEPT !.status = "refunded", !.refunded = OrderAmount]
      OBVIOUS
    <2>2. /\ order' = [order EXCEPT ![o] = new] /\ refunds' = [refunds EXCEPT ![o] = 0]
          /\ UNCHANGED <<balance, ledger, sub, granted>>
      BY <1>4, <2>1 DEF RefundUnpaid, TypeOK
    <2>3. new \in Order /\ new.status # "pending" /\ new.refunded = OrderAmount
      <3>1. OrderAmount \in 0..OrderAmount
        BY <1>0
      <3> QED
        BY <1>0, <2>1, <3>1 DEF Order
    <2>r. RefundInv'
      <3>1. /\ order'[o] = new /\ refunds'[o] = 0
            /\ \A p \in Orders : p # o => order'[p] = order[p] /\ refunds'[p] = refunds[p]
        BY <1>0, <2>2 DEF TypeOK
      <3> QED
        BY <1>0, <2>3, <3>1 DEF RefundInv
    <2>4. TypeOK'
      BY <1>0, <2>2, <2>3 DEF TypeOK
    <2>5. order'[PlanOrder] = new \/ order'[PlanOrder] = order[PlanOrder]
      BY <1>0, <2>2 DEF TypeOK
    <2> QED
      BY <1>0, <1>1, <2>2, <2>3, <2>r, <2>4, <2>5 DEF DriftInv, HoldsAreCovered
  <1>5. CASE \E amount \in 1..OrderAmount : ProviderRefunds(o, amount)
    <2> PICK amount \in 1..OrderAmount : ProviderRefunds(o, amount)
      BY <1>5
    <2>1. /\ refunds' = [refunds EXCEPT ![o] = amount]
          /\ UNCHANGED <<balance, ledger, sub, granted, order>>
          /\ order[o].refunded + amount <= OrderAmount
      BY DEF ProviderRefunds
    <2>2. TypeOK'
      BY <1>0, <2>1 DEF TypeOK
    <2>r. RefundInv'
      BY <2>1 DEF RefundInv, TypeOK
    <2> QED
      BY <1>0, <1>1, <2>1, <2>2, <2>r DEF DriftInv, HoldsAreCovered
  <1> QED
    BY <1>2, <1>3, <1>4, <1>5

\* Every step keeps the invariant.
LEMMA CreditNext == CreditInv /\ [Next]_vars => CreditInv'
  <1> SUFFICES ASSUME CreditInv, [Next]_vars PROVE CreditInv'
    OBVIOUS
  <1>1. CASE UNCHANGED vars
    BY <1>1 DEF vars, account, rounds, billing, CreditInv, TypeOK, RoundInv, DriftInv,
                RefundInv, HoldsAreCovered
  <1>2. CASE \E q \in Readers : ReadBalance(q) \/ CheckGrant(q) \/ RepairGrant(q)
    BY <1>2, ReaderStep
  <1>3. CASE (\E amount \in Costs : Charge(amount))
             \/ (\E r \in Rounds, amount \in Holds : ReserveRound(r, amount))
    BY <1>3, SpendStep
  <1>4. CASE \E r \in Rounds : ProviderAnswers(r) \/ ProviderRefuses(r) \/ Crash(r)
    BY <1>4, CallStep
  <1>5. CASE \E r \in Rounds : \/ MarkReady(r) \/ FinalizeRound(r) \/ ReleaseRound(r)
                               \/ Sweep(r) \/ ResolveCompleted(r) \/ ResolveNotAccepted(r)
    <2> PICK r \in Rounds : \/ MarkReady(r) \/ FinalizeRound(r) \/ ReleaseRound(r)
                            \/ Sweep(r) \/ ResolveCompleted(r) \/ ResolveNotAccepted(r)
      BY <1>5
    <2>0. /\ call[r] \in Call /\ [call[r] EXCEPT !.pc = "done"] \in Call
          /\ call = [call EXCEPT ![r] = call[r]]
          /\ [call EXCEPT ![r].pc = "done"]
              = [call EXCEPT ![r] = [call[r] EXCEPT !.pc = "done"]]
      BY DEF CreditInv, TypeOK, Call
    <2>1. CASE MarkReady(r)
      BY <2>1, MarkReadyStep
    <2>2. CASE FinalizeRound(r)
      <3>1. /\ call[r].pc = "marked"
            /\ call' = [call EXCEPT ![r].pc = "done"]
            /\ UNCHANGED <<faults, sub, granted, order, refunds, reader>>
        BY <2>2 DEF FinalizeRound, billing
      <3>2. CASE Finalize(r, hold[r], reserved)
        BY <2>0, <3>1, <3>2, FinalizeStep
      <3>3. CASE UNCHANGED <<account, hold, charges>>
        BY <3>1, <3>3, EndStep DEF account
      <3> QED
        BY <2>2, <3>2, <3>3 DEF FinalizeRound
    <2>3. CASE ReleaseRound(r)
      <3>1. /\ call[r].pc \in {"rejected", "ambiguous"}
            /\ call' = [call EXCEPT ![r].pc = "done"]
            /\ UNCHANGED <<balance, ledger, charges, faults, sub, granted, order, refunds, reader>>
        BY <2>3 DEF ReleaseRound, billing
      <3>2. CASE Frees(call[r].pc) /\ Release(r)
        <4>1. call[r].pc = "rejected" /\ call[r].outcome = "refused"
          BY <3>2 DEF Frees, CreditInv, RoundInv, RoundOK
        <4> QED
          BY <2>0, <3>1, <3>2, <4>1, ReleaseStep
      <3>3. CASE UNCHANGED <<hold, reserved>>
        BY <3>1, <3>3, EndStep
      <3> QED
        BY <2>3, <3>2, <3>3 DEF ReleaseRound
    <2>4. CASE Sweep(r)
      <3>1. /\ Finalize(r, hold[r], reserved) /\ call' = call
            /\ UNCHANGED <<faults, sub, granted, order, refunds, reader>>
        BY <2>4 DEF Sweep, billing
      <3> QED
        BY <2>0, <3>1, FinalizeStep
    <2>5. CASE ResolveCompleted(r)
      <3>1. /\ call[r].outcome = "accepted" /\ call' = call
            /\ Finalize(r, Marked(hold[r], call[r].debt),
                        ReservedWhenMarked(hold[r], call[r].debt))
            /\ UNCHANGED <<faults, sub, granted, order, refunds, reader>>
        BY <2>5 DEF ResolveCompleted, billing
      <3> QED
        BY <2>0, <3>1, FinalizeStep
    <2>6. CASE ResolveNotAccepted(r)
      <3>1. /\ call[r].outcome = "refused" /\ call' = call /\ Release(r)
            /\ UNCHANGED <<balance, ledger, charges, faults, sub, granted, order, refunds, reader>>
        BY <2>6 DEF ResolveNotAccepted, billing
      <3> QED
        BY <2>0, <3>1, ReleaseStep
    <2> QED
      BY <2>1, <2>2, <2>3, <2>4, <2>5, <2>6
  <1>6. CASE \E o \in Orders :
                \/ PayOrder(o) \/ RefundPaid(o) \/ RefundUnpaid(o)
                \/ \E amount \in 1..OrderAmount : ProviderRefunds(o, amount)
    BY <1>6, OrderStep
  <1> QED
    BY <1>1, <1>2, <1>3, <1>4, <1>5, <1>6 DEF Next

\* The invariant holds in every reachable state.
THEOREM CreditInvariant == Spec => []CreditInv
  BY CreditInit, CreditNext, PTL DEF Spec

\* Balance, holds, calls and orders keep their types: the balance and the reserved
\* Credits are never negative.
THEOREM CreditTypeCorrect == Spec => []TypeOK
  <1>1. CreditInv => TypeOK
    BY DEF CreditInv
  <1> QED
    BY <1>1, CreditInvariant, PTL

\* Whoever settles a round, it is charged once and exactly its debt.
THEOREM CreditDebtChargedExactly == Spec => []DebtChargedExactly
  <1>1. CreditInv => DebtChargedExactly
    BY DEF CreditInv, RoundInv, RoundOK, DebtChargedExactly
  <1> QED
    BY <1>1, CreditInvariant, PTL

\* No error path frees what the provider accepted.
THEOREM CreditAcceptedDebtStands == Spec => []AcceptedDebtStands
  <1>1. CreditInv => AcceptedDebtStands
    <2> SUFFICES ASSUME CreditInv, NEW r \in Rounds, call[r].outcome = "accepted"
                 PROVE  hold[r].status \in Open \cup {"finalized"}
      BY DEF AcceptedDebtStands
    <2>1. RoundOK(hold[r], call[r], charges[r]) /\ hold[r] \in Hold
      BY DEF CreditInv, RoundInv, TypeOK
    <2> QED
      BY <2>1 DEF RoundOK, Hold, Open
  <1> QED
    BY <1>1, CreditInvariant, PTL

\* Without an overrun and without a lost update the balance covers every hold.
THEOREM CreditHoldsAreCovered == Spec => []HoldsAreCovered
  <1>1. CreditInv => HoldsAreCovered
    BY DEF CreditInv
  <1> QED
    BY <1>1, CreditInvariant, PTL

(***************************************************************************)
(* The reserved Credits are the sum of the open holds.  The sum is counted *)
(* as a set of numbered Credits, so that a step of one round removes the   *)
(* Credits of its old hold and adds those of its new one.                  *)
(***************************************************************************)

\* What a hold adds to the reserved Credits, and the Credits themselves.
Weight(h) == IF h.status \in Open THEN h.amount ELSE 0

Units(r, h) == {r} \X (1..Weight(h))

\* The Credits of a hold are as many as its amount.
LEMMA UnitsCount ==
    ASSUME NEW r, NEW h \in Hold
    PROVE  /\ IsFiniteSet(Units(r, h))
           /\ Cardinality(Units(r, h)) = Weight(h)
           /\ Weight(h) \in Nat
  <1>1. Weight(h) \in Nat
    BY DEF Weight, Hold
  <1> DEFINE n == Weight(h)
  <1>2. n \in Nat
    BY <1>1
  <1> HIDE DEF n
  <1>3. IsFiniteSet(1..n) /\ Cardinality(1..n) = n
    <2>1. 1 \in Int /\ n \in Int
      BY <1>2
    <2>2. IsFiniteSet(1..n) /\ Cardinality(1..n) = IF 1 > n THEN 0 ELSE n - 1 + 1
      BY <2>1, FS_Interval
    <2> QED
      BY <1>2, <2>2
  <1>4. IsFiniteSet({r}) /\ Cardinality({r}) = 1
    BY FS_Singleton
  <1>5. /\ IsFiniteSet({r} \X (1..n))
        /\ Cardinality({r} \X (1..n)) = Cardinality({r}) * Cardinality(1..n)
    BY <1>3, <1>4, FS_Product
  <1>6. Cardinality({r} \X (1..n)) = n
    BY <1>2, <1>3, <1>4, <1>5
  <1> QED
    BY <1>1, <1>5, <1>6 DEF Units, n

\* A Credit is held iff it belongs to the hold of its round.
LEMMA HeldCreditsAreUnits ==
    ASSUME NEW f
    PROVE  UNION {{r} \X (1..f[r].amount) : r \in {q \in Rounds : f[q].status \in Open}}
            = UNION {Units(r, f[r]) : r \in Rounds}
  <1> DEFINE Held == UNION {{r} \X (1..f[r].amount) : r \in {q \in Rounds : f[q].status \in Open}}
  <1>1. \A r \in Rounds : f[r].status \in Open => Units(r, f[r]) = {r} \X (1..f[r].amount)
    BY DEF Units, Weight
  <1>2. \A r \in Rounds : f[r].status \notin Open => Units(r, f[r]) = {}
    <2> SUFFICES ASSUME NEW r \in Rounds, f[r].status \notin Open
                 PROVE  {r} \X (1..0) = {}
      BY DEF Units, Weight
    <2> QED
      OBVIOUS
  <1>3. ASSUME NEW u PROVE u \in Held <=> \E r \in Rounds : u \in Units(r, f[r])
    <2>1. u \in Held
            <=> \E r \in Rounds : f[r].status \in Open /\ u \in {r} \X (1..f[r].amount)
      OBVIOUS
    <2> QED
      BY <2>1, <1>1, <1>2
  <1> QED
    BY <1>3

\* The sum needs the Credits to be finitely many.
HoldsInv == IsFiniteSet(HeldCredits) /\ HoldsAddUp

\* A step that replaces one hold exchanges its Credits: the reserved amount covers
\* the old ones, so max(..., 0) never hides a difference.
LEMMA ExchangeCredits ==
    ASSUME TypeOK, TypeOK', HoldsInv, NEW r \in Rounds, NEW h \in Hold,
           hold' = [hold EXCEPT ![r] = h]
    PROVE  /\ Weight(hold[r]) <= reserved
           /\ IsFiniteSet(HeldCredits')
           /\ Cardinality(HeldCredits') = reserved - Weight(hold[r]) + Weight(h)
  <1> DEFINE Old == Units(r, hold[r])
             New == Units(r, h)
             Rest == HeldCredits \ Old
  <1>0. /\ hold[r] \in Hold /\ reserved \in Nat
        /\ hold'[r] = h /\ \A q \in Rounds : q # r => hold'[q] = hold[q]
    BY DEF TypeOK
  <1>1. /\ IsFiniteSet(Old) /\ Cardinality(Old) = Weight(hold[r]) /\ Weight(hold[r]) \in Nat
        /\ IsFiniteSet(New) /\ Cardinality(New) = Weight(h) /\ Weight(h) \in Nat
    BY <1>0, UnitsCount
  <1>2. HeldCredits = UNION {Units(q, hold[q]) : q \in Rounds}
    BY HeldCreditsAreUnits DEF HeldCredits
  <1>3. HeldCredits' = UNION {Units(q, hold'[q]) : q \in Rounds}
    <2>1. PICK g : g = hold'
      OBVIOUS
    <2>2. HeldCredits'
            = UNION {{q} \X (1..g[q].amount) : q \in {p \in Rounds : g[p].status \in Open}}
      BY <2>1 DEF HeldCredits
    <2>3. HeldCredits' = UNION {Units(q, g[q]) : q \in Rounds}
      BY <2>2, HeldCreditsAreUnits
    <2> QED
      BY <2>1, <2>3
  <1>4. \A q, k, u : u \in Units(q, k) => u[1] = q
    BY DEF Units
  <1>5. Old \subseteq HeldCredits
    BY <1>2
  <1>6. HeldCredits' = Rest \cup New
    <2> SUFFICES ASSUME NEW u PROVE u \in HeldCredits' <=> u \in Rest \cup New
      OBVIOUS
    <2>1. u \in HeldCredits' <=> \E q \in Rounds : u \in Units(q, hold'[q])
      BY <1>3
    <2>2. u \in HeldCredits <=> \E q \in Rounds : u \in Units(q, hold[q])
      BY <1>2
    <2>3. u \in Rest <=> \E q \in Rounds : q # r /\ u \in Units(q, hold[q])
      BY <2>2, <1>4
    <2> QED
      BY <2>1, <2>3, <1>0
  <1>7. Rest \cap New = {} /\ HeldCredits \cap Old = Old
    <2>1. ASSUME NEW u \in Rest, u \in New PROVE FALSE
      <3>1. PICK q \in Rounds : u \in Units(q, hold[q])
        BY <2>1, <1>2
      <3>2. q = r
        BY <2>1, <3>1, <1>4
      <3> QED
        BY <2>1, <3>1, <3>2
    <2> QED
      BY <2>1, <1>5
  <1> HIDE DEF Old, New, Rest
  <1>8. /\ IsFiniteSet(Rest)
        /\ Cardinality(Rest) = Cardinality(HeldCredits) - Cardinality(HeldCredits \cap Old)
    BY FS_Difference DEF HoldsInv, Rest
  <1>9. IsFiniteSet(Rest \cup New)
        /\ Cardinality(Rest \cup New)
            = Cardinality(Rest) + Cardinality(New) - Cardinality(Rest \cap New)
    BY <1>1, <1>8, FS_Union
  <1>10. Cardinality(Rest) \in Nat /\ Cardinality({}) = 0
    BY <1>8, FS_CardinalityType, FS_EmptySet
  <1>11. Cardinality(HeldCredits) = reserved
    BY DEF HoldsInv, HoldsAddUp
  <1>12. Cardinality(Rest) = reserved - Weight(hold[r])
    BY <1>1, <1>7, <1>8, <1>11
  <1>13. Cardinality(Rest \cup New) = Cardinality(Rest) + Weight(h)
    <2>1. Cardinality(Rest \cap New) = 0
      BY <1>7, <1>10
    <2>2. Cardinality(New) = Weight(h) /\ Weight(h) \in Nat
      BY <1>1
    <2> QED
      BY <2>1, <2>2, <1>9, <1>10
  <1> QED
    BY <1>0, <1>1, <1>6, <1>9, <1>10, <1>12, <1>13

\* A step that leaves the holds and the reserved Credits alone.
LEMMA HoldsStay ==
    ASSUME HoldsInv, UNCHANGED <<reserved, hold>>
    PROVE  HoldsInv'
  BY DEF HoldsInv, HoldsAddUp, HeldCredits

\* A step that replaces a hold, and reserves what it then weighs.
LEMMA HoldsMove ==
    ASSUME CreditInv, CreditInv', HoldsInv, NEW r \in Rounds, NEW h \in Hold,
           hold' = [hold EXCEPT ![r] = h],
           reserved' = NonNegative(reserved - Weight(hold[r]) + Weight(h))
    PROVE  HoldsInv'
  <1>1. TypeOK /\ TypeOK' /\ reserved \in Nat /\ hold[r] \in Hold
    BY DEF CreditInv, TypeOK
  <1>2. /\ Weight(hold[r]) <= reserved
        /\ IsFiniteSet(HeldCredits')
        /\ Cardinality(HeldCredits') = reserved - Weight(hold[r]) + Weight(h)
    BY <1>1, ExchangeCredits
  <1>3. Weight(hold[r]) \in Nat /\ Weight(h) \in Nat
    BY <1>1, UnitsCount
  <1>4. reserved' = reserved - Weight(hold[r]) + Weight(h)
    BY <1>1, <1>2, <1>3 DEF NonNegative
  <1> QED
    BY <1>2, <1>4 DEF HoldsInv, HoldsAddUp

\* reserve_llm_round_credits: the round had no hold.
LEMMA ReserveHolds ==
    ASSUME CreditInv, CreditInv', HoldsInv, NEW r \in Rounds, NEW amount \in Holds,
           ReserveRound(r, amount)
    PROVE  HoldsInv'
  <1>1. PICK h : h = [status |-> "provider_inflight", amount |-> amount]
    OBVIOUS
  <1>2. hold' = [hold EXCEPT ![r] = h] /\ reserved' = reserved + amount /\ call[r].pc = "idle"
    BY <1>1 DEF ReserveRound
  <1>3. amount \in Nat /\ reserved \in Nat
    BY CreditAssumption DEF CreditInv, TypeOK
  <1>4. h \in Hold /\ Weight(h) = amount
    BY <1>1, <1>3 DEF Hold, Open, Weight
  <1>5. Weight(hold[r]) = 0
    BY <1>2 DEF CreditInv, RoundInv, RoundOK, Weight, Open
  <1>6. reserved' = NonNegative(reserved - Weight(hold[r]) + Weight(h))
    BY <1>2, <1>3, <1>4, <1>5 DEF NonNegative
  <1> QED
    BY <1>2, <1>4, <1>6, HoldsMove

\* Every open hold is part of the reserved Credits.
LEMMA HoldIsCounted ==
    ASSUME CreditInv, HoldsInv, NEW r \in Rounds
    PROVE  Weight(hold[r]) <= reserved
  <1>1. hold[r] \in Hold
    BY DEF CreditInv, TypeOK
  <1>2. Units(r, hold[r]) \in SUBSET HeldCredits
    BY HeldCreditsAreUnits DEF HeldCredits
  <1>3. Cardinality(Units(r, hold[r])) <= Cardinality(HeldCredits)
    BY <1>2, FS_Subset DEF HoldsInv
  <1> QED
    BY <1>1, <1>3, UnitsCount DEF HoldsInv, HoldsAddUp

\* What recording a debt makes of the hold and of the reserved Credits.
LEMMA MarkedHolds ==
    ASSUME CreditInv, HoldsInv, NEW r \in Rounds
    PROVE  /\ Marked(hold[r], call[r].debt) \in Hold
           /\ ReservedWhenMarked(hold[r], call[r].debt)
               = NonNegative(reserved - Weight(hold[r]) + Weight(Marked(hold[r], call[r].debt)))
  <1>1. /\ hold[r] \in Hold /\ call[r].debt \in Nat /\ reserved \in Nat
        /\ hold[r].amount \in Nat
    BY DEF CreditInv, TypeOK, Hold, Call
  <1>2. Marked(hold[r], call[r].debt) \in Hold
    BY <1>1 DEF Marked, Hold, Open
  <1>3. Weight(hold[r]) \in Nat
    BY <1>1, UnitsCount
  <1>4. CASE hold[r].status = "provider_inflight"
    <2>1. /\ Weight(hold[r]) = hold[r].amount
          /\ Weight(Marked(hold[r], call[r].debt)) = call[r].debt
          /\ ReservedWhenMarked(hold[r], call[r].debt)
              = NonNegative(reserved + call[r].debt - hold[r].amount)
      BY <1>4 DEF Weight, Marked, Open, ReservedWhenMarked
    <2>2. reserved + call[r].debt - hold[r].amount = reserved - hold[r].amount + call[r].debt
      BY <1>1
    <2> QED
      BY <1>2, <2>1, <2>2
  <1>5. CASE hold[r].status # "provider_inflight"
    <2>1. /\ Marked(hold[r], call[r].debt) = hold[r]
          /\ ReservedWhenMarked(hold[r], call[r].debt) = reserved
      BY <1>5 DEF Marked, ReservedWhenMarked
    <2>2. reserved - Weight(hold[r]) + Weight(hold[r]) = reserved
      BY <1>1, <1>3
    <2> QED
      BY <1>1, <2>1, <2>2 DEF NonNegative
  <1> QED
    BY <1>2, <1>4, <1>5

\* finalize_reserved_credits_in_session, of a recorded debt or of one recorded in the
\* same transaction.
LEMMA FinalizeHolds ==
    ASSUME CreditInv, CreditInv', HoldsInv, NEW r \in Rounds, NEW h \in Hold, NEW held \in Nat,
           held = reserved - Weight(hold[r]) + Weight(h),
           Finalize(r, h, held)
    PROVE  HoldsInv'
  <1>1. PICK k : k = [h EXCEPT !.status = "finalized"]
    OBVIOUS
  <1>2. /\ h.status = "settlement_ready"
        /\ reserved' = NonNegative(held - h.amount)
        /\ hold' = [hold EXCEPT ![r] = k]
    BY <1>1 DEF Finalize, CanFinalize
  <1>3. k \in Hold /\ Weight(k) = 0 /\ Weight(h) = h.amount /\ h.amount \in Nat
    BY <1>1, <1>2 DEF Hold, Weight, Open
  <1>4. hold[r] \in Hold /\ reserved \in Nat
    BY DEF CreditInv, TypeOK
  <1>5. Weight(hold[r]) \in Nat
    BY <1>4, UnitsCount
  <1>6. held - h.amount = reserved - Weight(hold[r]) + Weight(k)
    BY <1>3, <1>4, <1>5
  <1> QED
    BY <1>2, <1>3, <1>6, HoldsMove

\* release_reserved_credits_in_session.
LEMMA ReleaseHolds ==
    ASSUME CreditInv, CreditInv', HoldsInv, NEW r \in Rounds, Release(r)
    PROVE  HoldsInv'
  <1>1. PICK k : k = [hold[r] EXCEPT !.status = "released"]
    OBVIOUS
  <1>2. /\ hold[r].status = "provider_inflight"
        /\ hold' = [hold EXCEPT ![r] = k]
        /\ reserved' = NonNegative(reserved - hold[r].amount)
        /\ hold[r] \in Hold /\ reserved \in Nat
    BY <1>1 DEF Release, Releasable, CreditInv, TypeOK
  <1>3. k \in Hold /\ Weight(k) = 0 /\ Weight(hold[r]) = hold[r].amount /\ hold[r].amount \in Nat
    BY <1>1, <1>2 DEF Hold, Weight, Open
  <1>4. reserved - hold[r].amount = reserved - Weight(hold[r]) + Weight(k)
    BY <1>2, <1>3
  <1> QED
    BY <1>2, <1>3, <1>4, HoldsMove

\* The open holds add up before and after every step.
LEMMA HoldsNext == CreditInv /\ CreditInv' /\ HoldsInv /\ [Next]_vars => HoldsInv'
  <1> SUFFICES ASSUME CreditInv, CreditInv', HoldsInv, [Next]_vars PROVE HoldsInv'
    OBVIOUS
  <1>0. ASSUME UNCHANGED <<reserved, hold>> PROVE HoldsInv'
    BY <1>0, HoldsStay
  <1>1. CASE UNCHANGED vars
    BY <1>0, <1>1 DEF vars, account, rounds
  <1>2. CASE \E q \in Readers : ReadBalance(q) \/ CheckGrant(q) \/ RepairGrant(q)
    BY <1>0, <1>2 DEF ReadBalance, CheckGrant, RepairGrant, account, rounds
  <1>3. CASE \E amount \in Costs : Charge(amount)
    BY <1>0, <1>3 DEF Charge, rounds
  <1>4. CASE \E r \in Rounds, amount \in Holds : ReserveRound(r, amount)
    BY <1>4, ReserveHolds
  <1>5. CASE \E r \in Rounds : ProviderAnswers(r) \/ ProviderRefuses(r) \/ Crash(r)
    BY <1>0, <1>5 DEF ProviderAnswers, ProviderRefuses, Crash, account
  <1>6. ASSUME NEW r \in Rounds,
               \/ MarkReady(r) \/ FinalizeRound(r) \/ ReleaseRound(r)
               \/ Sweep(r) \/ ResolveCompleted(r) \/ ResolveNotAccepted(r)
        PROVE  HoldsInv'
    <2>0. hold[r] \in Hold /\ reserved \in Nat
      BY DEF CreditInv, TypeOK
    <2>1. Weight(hold[r]) \in Nat
      BY <2>0, UnitsCount
    <2>2. ASSUME Finalize(r, hold[r], reserved) PROVE HoldsInv'
      <3>1. reserved = reserved - Weight(hold[r]) + Weight(hold[r])
        BY <2>0, <2>1
      <3> QED
        BY <2>0, <2>2, <3>1, FinalizeHolds
    <2>3. CASE MarkReady(r)
      <3>1. PICK h : h = Marked(hold[r], call[r].debt)
        OBVIOUS
      <3>2. /\ hold' = [hold EXCEPT ![r] = h]
            /\ reserved' = ReservedWhenMarked(hold[r], call[r].debt)
        BY <2>3, <3>1 DEF MarkReady
      <3>3. h \in Hold /\ reserved' = NonNegative(reserved - Weight(hold[r]) + Weight(h))
        BY <3>1, <3>2, MarkedHolds
      <3> QED
        BY <3>2, <3>3, HoldsMove
    <2>4. CASE FinalizeRound(r)
      BY <1>0, <2>2, <2>4 DEF FinalizeRound, account
    <2>5. CASE ReleaseRound(r)
      BY <1>0, <2>5, ReleaseHolds DEF ReleaseRound
    <2>6. CASE Sweep(r)
      BY <2>2, <2>6 DEF Sweep
    <2>7. CASE ResolveCompleted(r)
      <3>1. PICK h, held : /\ h = Marked(hold[r], call[r].debt)
                           /\ held = ReservedWhenMarked(hold[r], call[r].debt)
        OBVIOUS
      <3>2. Finalize(r, h, held)
        BY <2>7, <3>1 DEF ResolveCompleted
      <3>3. /\ h \in Hold /\ Weight(hold[r]) <= reserved
            /\ held = NonNegative(reserved - Weight(hold[r]) + Weight(h))
        BY <3>1, MarkedHolds, HoldIsCounted
      <3>4. Weight(h) \in Nat
        BY <3>3, UnitsCount
      <3>5. held \in Nat /\ held = reserved - Weight(hold[r]) + Weight(h)
        BY <2>0, <2>1, <3>3, <3>4 DEF NonNegative
      <3> QED
        BY <3>2, <3>3, <3>5, FinalizeHolds
    <2>8. CASE ResolveNotAccepted(r)
      BY <2>8, ReleaseHolds DEF ResolveNotAccepted
    <2> QED
      BY <1>6, <2>3, <2>4, <2>5, <2>6, <2>7, <2>8
  <1>7. CASE \E o \in Orders :
                \/ PayOrder(o) \/ RefundPaid(o) \/ RefundUnpaid(o)
                \/ \E amount \in 1..OrderAmount : ProviderRefunds(o, amount)
    BY <1>0, <1>7 DEF PayOrder, RefundPaid, RefundUnpaid, ProviderRefunds, account, rounds
  <1> QED
    BY <1>1, <1>2, <1>3, <1>4, <1>5, <1>6, <1>7 DEF Next

\* The reserved Credits of the balance row are the sum of the open reservations in
\* every reachable state: no path reserves, resizes or frees a hold twice, and the
\* max(..., 0) of the code never absorbs a difference.
THEOREM CreditHoldsAddUp == Spec => []HoldsAddUp
  <1>1. Init => HoldsInv
    <2> SUFFICES ASSUME Init PROVE HoldsInv
      OBVIOUS
    <2>1. HeldCredits = {}
      BY DEF Init, HeldCredits, Open
    <2> QED
      BY <2>1, FS_EmptySet DEF Init, HoldsInv, HoldsAddUp
  <1>2. HoldsInv => HoldsAddUp
    BY DEF HoldsInv
  <1> QED
    BY <1>1, <1>2, HoldsNext, CreditInvariant, PTL DEF Spec

=============================================================================

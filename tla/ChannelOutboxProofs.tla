-------------------------- MODULE ChannelOutboxProofs --------------------------
(***************************************************************************)
(* The channel outbox, proved for every number of messages, workers,       *)
(* attempts and faults.                                                    *)
(***************************************************************************)
EXTENDS ChannelOutbox, FiniteSetTheorems, TLAPS

\* The rows up to staged exist, and a settled row is nobody's.
StagedInv ==
    \A d \in Deliveries :
        /\ d > staged <=> row[d].status = "none"
        /\ row[d].status = "none" => accepted[d] = 0
        /\ row[d].status = "delivered" => accepted[d] > 0

\* A worker named by a row is still busy with that row, in that attempt.
OwnerInv ==
    \A d \in Deliveries, w \in Workers :
        row[d].owner = w =>
            /\ row[d].status = "claimed"
            /\ worker[w].pc # "idle"
            /\ worker[w].delivery = d
            /\ worker[w].attempt = row[d].attempts

\* A busy worker has a message, and reports it delivered only once accepted.
BusyInv ==
    \A w \in Workers :
        worker[w].pc # "idle" =>
            /\ worker[w].delivery \in Deliveries
            /\ row[worker[w].delivery].status # "none"
            /\ worker[w].outcome = "delivered" => accepted[worker[w].delivery] > 0
            /\ worker[w].pc # "sending" => worker[w].outcome \in {"delivered", "failed"}

\* A settlement holds the lock of a row that is not settled yet.
LockInv ==
    \A w \in Workers :
        worker[w].pc = "settling" =>
            /\ row[worker[w].delivery].status \in {"pending", "claimed"}
            /\ \A v \in Workers :
                worker[v].pc = "settling" /\ worker[v].delivery = worker[w].delivery => v = w

\* Attempts past the limit are paid for by faults.
AttemptInv ==
    \A d \in Deliveries :
        /\ row[d].attempts <= MaxAttempts + faults
        /\ row[d].status \in {"none", "pending"} => row[d].attempts < MaxAttempts
        /\ row[d].status = "claimed" /\ (row[d].owner = Gone \/ ~row[d].live)
            => row[d].attempts < MaxAttempts + faults

Senders(d) == {w \in Workers : worker[w].pc = "sending" /\ worker[w].delivery = d}

\* The row may be claimed and sent again without a further expiry.
Open(d) ==
    \/ row[d].status \in {"none", "pending"}
    \/ row[d].status = "claimed" /\ ~row[d].live
    \/ \E w \in Workers :
        row[d].owner = w /\ worker[w].pc = "sent" /\ worker[w].outcome = "failed"

\* The copies accepted and those on their way, against the excuses for them.
BudgetInv ==
    \A d \in Deliveries :
        /\ accepted[d] + Cardinality(Senders(d)) <= excused[d] + 1
        /\ Open(d) => accepted[d] + Cardinality(Senders(d)) <= excused[d]

OutboxInv ==
    TypeOK /\ StagedInv /\ OwnerInv /\ BusyInv /\ LockInv /\ AttemptInv /\ BudgetInv

\* An outbox with no rows.
LEMMA OutboxInit == Init => OutboxInv
  <1> SUFFICES ASSUME Init PROVE OutboxInv
    OBVIOUS
  <1> USE OutboxAssumption DEF Init, Idle, Deliveries
  <1>1. TypeOK
    BY DEF TypeOK, Row, Worker, Attempts
  <1>2. BudgetInv
    <2>1. \A d \in Deliveries : Senders(d) = {}
      BY DEF Senders
    <2>2. Cardinality({}) = 0
      BY FS_EmptySet
    <2>3. \A d \in Deliveries : Cardinality(Senders(d)) = 0
      BY <2>1, <2>2, Zenon
    <2>4. \A d \in Deliveries : accepted[d] = 0 /\ excused[d] = 0
      OBVIOUS
    <2> QED
      BY <2>3, <2>4 DEF BudgetInv
  <1> QED
    BY <1>1, <1>2 DEF OutboxInv, StagedInv, OwnerInv, BusyInv, LockInv, AttemptInv

\* The workers that are sending a message are finitely many.
LEMMA SendersAreFinite ==
    ASSUME NEW d PROVE IsFiniteSet(Senders(d)) /\ Cardinality(Senders(d)) \in Nat
  <1>1. Senders(d) \in SUBSET Workers
    BY DEF Senders
  <1>2. IsFiniteSet(Senders(d))
    BY <1>1, FS_Subset, OutboxAssumption
  <1> QED
    BY <1>2, FS_CardinalityType

\* A step that leaves the workers alone leaves the senders alone.
LEMMA StageStep == OutboxInv /\ Stage => OutboxInv'
  <1> SUFFICES ASSUME OutboxInv, Stage PROVE OutboxInv'
    OBVIOUS
  <1> USE OutboxAssumption DEF OutboxInv, Stage, Deliveries
  <1>0. /\ row' = [row EXCEPT ![staged + 1].status = "pending"]
        /\ staged + 1 \in Deliveries /\ row[staged + 1].status = "none"
    BY DEF StagedInv, TypeOK
  <1>1. TypeOK'
    <2>1. [row[staged + 1] EXCEPT !.status = "pending"] \in Row
      BY <1>0 DEF TypeOK, Row
    <2>2. row' \in [Deliveries -> Row]
      BY <1>0, <2>1 DEF TypeOK
    <2> QED
      BY <2>2 DEF TypeOK
  <1>2. StagedInv'
    BY <1>0 DEF TypeOK, Row, StagedInv
  <1>3. OwnerInv'
    BY <1>0 DEF TypeOK, Row, OwnerInv
  <1>4. BusyInv'
    BY <1>0 DEF TypeOK, Row, BusyInv
  <1>5. LockInv'
    BY <1>0 DEF TypeOK, Row, LockInv, BusyInv
  <1>6. AttemptInv'
    BY <1>0 DEF TypeOK, Row, AttemptInv
  <1>7. BudgetInv'
    <2>1. \A d \in Deliveries : Senders(d)' = Senders(d)
      BY DEF Senders
    <2>2. \A d \in Deliveries : Open(d)' => Open(d)
      BY <1>0 DEF TypeOK, Row, Open
    <2> QED
      BY <2>1, <2>2 DEF BudgetInv
  <1> QED
    BY <1>1, <1>2, <1>3, <1>4, <1>5, <1>6, <1>7

\* A message without a row touches the Run's status only.
LEMMA WithoutRowStep ==
    ASSUME NEW status \in {"delivered", "failed"}, OutboxInv, DeliverWithoutRow(status)
    PROVE  OutboxInv'
  <1>1. TypeOK'
    BY DEF OutboxInv, TypeOK, DeliverWithoutRow
  <1>2. StagedInv' /\ OwnerInv' /\ BusyInv' /\ LockInv' /\ AttemptInv'
    BY DEF OutboxInv, DeliverWithoutRow, StagedInv, OwnerInv, BusyInv, LockInv, AttemptInv
  <1>3. BudgetInv'
    BY DEF OutboxInv, DeliverWithoutRow, BudgetInv, Senders, Open
  <1> QED
    BY <1>1, <1>2, <1>3 DEF OutboxInv

\* A claim spends the excuse that made the row claimable.
LEMMA ClaimStep ==
    ASSUME NEW w \in Workers, NEW d \in Deliveries, OutboxInv, Claim(w, d)
    PROVE  OutboxInv'
  <1> USE OutboxAssumption DEF OutboxInv, Deliveries
  <1> DEFINE r == [status |-> "claimed", owner |-> w, live |-> TRUE,
                   attempts |-> row[d].attempts + 1]
             k == [Idle EXCEPT !.pc = "sending", !.delivery = d,
                               !.attempt = row[d].attempts + 1]
  <1>k. /\ k.pc = "sending" /\ k.delivery = d /\ k.attempt = row[d].attempts + 1
        /\ k.outcome = "none"
        /\ k.attempt \in Attempts => k \in Worker
    BY DEF Idle, Worker
  <1> HIDE DEF k
  <1>0. /\ worker[w].pc = "idle"
        /\ row[d].status = "pending" \/ (row[d].status = "claimed" /\ ~row[d].live)
        /\ \A v \in Workers : ~(worker[v].pc = "settling" /\ worker[v].delivery = d)
        /\ row' = [row EXCEPT ![d] = r]
        /\ worker' = [worker EXCEPT ![w] = k]
        /\ UNCHANGED <<staged, deliveryStatus, accepted, excused, faults>>
    <2>1. row' = [row EXCEPT ![d] = r]
      BY DEF Claim, TypeOK
    <2>2. worker' = [worker EXCEPT ![w] = k]
      BY DEF Claim, k
    <2>3. \A v \in Workers : ~(worker[v].pc = "settling" /\ worker[v].delivery = d)
      BY DEF Claim, Claimable, Locked
    <2> QED
      BY <2>1, <2>2, <2>3 DEF Claim, Claimable
  <1>a. row[d].attempts + 1 \in Attempts /\ row[d].attempts + 1 <= MaxAttempts + faults
    BY <1>0 DEF AttemptInv, TypeOK, Row, Attempts
  <1>1. TypeOK'
    <2>1. r \in Row /\ k \in Worker
      BY <1>a, <1>k DEF Row
    <2> HIDE DEF r
    <2> QED
      BY <1>0, <2>1 DEF TypeOK
  <1>2. StagedInv'
    BY <1>0, <1>k DEF TypeOK, StagedInv
  <1>3. OwnerInv'
    <2> SUFFICES ASSUME NEW e \in Deliveries, NEW v \in Workers, row'[e].owner = v
                 PROVE  /\ row'[e].status = "claimed"
                        /\ worker'[v].pc # "idle"
                        /\ worker'[v].delivery = e
                        /\ worker'[v].attempt = row'[e].attempts
      BY DEF OwnerInv
    <2>1. CASE e = d
      BY <1>0, <1>k, <2>1 DEF TypeOK
    <2>2. CASE e # d
      BY <1>0, <1>k, <2>2 DEF TypeOK, OwnerInv
    <2> QED
      BY <2>1, <2>2
  <1>4. BusyInv'
    BY <1>0, <1>k DEF TypeOK, BusyInv
  <1>5. LockInv'
    BY <1>0, <1>k DEF TypeOK, LockInv, BusyInv
  <1>6. AttemptInv'
    BY <1>0, <1>k, <1>a DEF TypeOK, Row, AttemptInv
  <1>7. BudgetInv'
    <2>1. Senders(d)' = Senders(d) \cup {w} /\ w \notin Senders(d)
      BY <1>0, <1>k DEF Senders, TypeOK
    <2>2. Cardinality(Senders(d)') = Cardinality(Senders(d)) + 1
      BY <2>1, FS_AddElement, SendersAreFinite
    <2>3. \A e \in Deliveries \ {d} : Senders(e)' = Senders(e)
      BY <1>0, <1>k DEF Senders, TypeOK
    <2>4. Open(d) /\ ~Open(d)'
      BY <1>0, <1>k DEF Open, TypeOK, OwnerInv
    <2>5. \A e \in Deliveries \ {d} : Open(e)' => Open(e)
      <3> SUFFICES ASSUME NEW e \in Deliveries \ {d}, Open(e)' PROVE Open(e)
        OBVIOUS
      <3>1. row'[e] = row[e]
        BY <1>0, <1>k DEF TypeOK
      <3>2. \A v \in Workers : worker'[v].pc = "sent" => worker'[v] = worker[v]
        BY <1>0, <1>k DEF TypeOK
      <3> QED
        BY <3>1, <3>2 DEF Open
    <2>6. Cardinality(Senders(d)) \in Nat
      BY SendersAreFinite
    <2>7. accepted'[d] + Cardinality(Senders(d)') <= excused'[d] + 1
      BY <1>0, <1>k, <2>2, <2>4, <2>6 DEF BudgetInv, TypeOK
    <2> QED
      BY <1>0, <1>k, <2>3, <2>4, <2>5, <2>7 DEF BudgetInv
  <1> QED
    BY <1>1, <1>2, <1>3, <1>4, <1>5, <1>6, <1>7

\* The claim that finds no message takes the lock of an unsettled row.
LEMMA ClaimMissingStep ==
    ASSUME NEW w \in Workers, NEW d \in Deliveries, OutboxInv, ClaimMissing(w, d)
    PROVE  OutboxInv'
  <1> USE OutboxAssumption DEF OutboxInv, Deliveries
  <1> DEFINE k == [worker[w] EXCEPT !.pc = "settling", !.delivery = d,
                                    !.outcome = "failed", !.latest = (d = staged)]
  <1>k. k \in Worker /\ k.pc = "settling" /\ k.delivery = d /\ k.outcome = "failed"
    BY DEF TypeOK, Worker
  <1> HIDE DEF k
  <1>0. /\ worker[w].pc = "idle"
        /\ row[d].status = "pending" \/ (row[d].status = "claimed" /\ ~row[d].live)
        /\ \A v \in Workers : ~(worker[v].pc = "settling" /\ worker[v].delivery = d)
        /\ worker' = [worker EXCEPT ![w] = k]
        /\ UNCHANGED <<staged, row, deliveryStatus, accepted, excused, faults>>
    <2>1. worker' = [worker EXCEPT ![w] = k]
      BY DEF ClaimMissing, Settling, TypeOK, k
    <2>2. \A v \in Workers : ~(worker[v].pc = "settling" /\ worker[v].delivery = d)
      BY DEF ClaimMissing, Claimable, Locked
    <2> QED
      BY <2>1, <2>2 DEF ClaimMissing, Claimable
  <1>1. TypeOK'
    BY <1>0, <1>k DEF TypeOK
  <1>2. StagedInv' /\ AttemptInv'
    BY <1>0 DEF StagedInv, AttemptInv
  <1>3. OwnerInv'
    <2>1. \A e \in Deliveries : row[e].owner # w
      BY <1>0 DEF OwnerInv
    <2>2. \A v \in Workers \ {w} : worker'[v] = worker[v]
      BY <1>0 DEF TypeOK
    <2> QED
      BY <1>0, <2>1, <2>2 DEF OwnerInv
  <1>4. BusyInv'
    BY <1>0, <1>k DEF TypeOK, BusyInv
  <1>5. LockInv'
    BY <1>0, <1>k DEF TypeOK, LockInv
  <1>7. BudgetInv'
    <2>1. \A e \in Deliveries : Senders(e)' = Senders(e)
      BY <1>0, <1>k DEF Senders, TypeOK
    <2>2. \A e \in Deliveries : Open(e)' => Open(e)
      BY <1>0, <1>k DEF Open, TypeOK
    <2> QED
      BY <1>0, <2>1, <2>2 DEF BudgetInv
  <1> QED
    BY <1>1, <1>2, <1>3, <1>4, <1>5, <1>7

\* The answer of the provider: a copy accepted and one sender fewer, or an excuse.
LEMMA SendStep ==
    ASSUME NEW w \in Workers, OutboxInv, Send(w)
    PROVE  OutboxInv'
  <1> USE OutboxAssumption DEF OutboxInv, Deliveries
  <1>d. PICK d \in Deliveries : worker[w].pc = "sending" /\ worker[w].delivery = d
    BY DEF Send, BusyInv
  <1>p. PICK taken \in BOOLEAN, confirmed \in BOOLEAN :
        /\ confirmed => taken
        /\ accepted' = [accepted EXCEPT ![d] = IF taken THEN @ + 1 ELSE @]
        /\ excused' = [excused EXCEPT ![d] = IF taken /\ ~confirmed THEN @ + 1 ELSE @]
        /\ worker' = [worker EXCEPT ![w].pc = "sent",
                            ![w].outcome = IF confirmed THEN "delivered" ELSE "failed"]
    BY <1>d DEF Send
  <1>u. UNCHANGED <<staged, row, deliveryStatus, faults>>
    BY DEF Send
  <1> DEFINE k == [worker[w] EXCEPT !.pc = "sent",
                            !.outcome = IF confirmed THEN "delivered" ELSE "failed"]
  <1>k. /\ k \in Worker /\ k.pc = "sent" /\ k.delivery = d /\ k.attempt = worker[w].attempt
        /\ k.outcome \in {"delivered", "failed"}
        /\ k.outcome = "delivered" <=> confirmed
    BY <1>d DEF TypeOK, Worker
  <1>w. worker' = [worker EXCEPT ![w] = k]
    BY <1>p DEF TypeOK, Worker
  <1> HIDE DEF k
  <1>a. /\ accepted' \in [Deliveries -> Nat] /\ excused' \in [Deliveries -> Nat]
        /\ \A e \in Deliveries : accepted'[e] >= accepted[e] /\ excused'[e] >= excused[e]
        /\ \A e \in Deliveries \ {d} : accepted'[e] = accepted[e] /\ excused'[e] = excused[e]
        /\ confirmed => accepted'[d] > 0
        /\ accepted'[d] <= accepted[d] + 1
        /\ ~confirmed => accepted'[d] + excused[d] <= accepted[d] + excused'[d]
    <2>1. accepted \in [Deliveries -> Nat] /\ excused \in [Deliveries -> Nat]
      BY DEF TypeOK
    <2>2. PICK a, x :
            /\ a = (IF taken THEN accepted[d] + 1 ELSE accepted[d])
            /\ x = (IF taken /\ ~confirmed THEN excused[d] + 1 ELSE excused[d])
      OBVIOUS
    <2>3. accepted' = [accepted EXCEPT ![d] = a] /\ excused' = [excused EXCEPT ![d] = x]
      BY <1>p, <2>2
    <2>4. /\ accepted[d] \in Nat /\ excused[d] \in Nat /\ a \in Nat /\ x \in Nat
          /\ a >= accepted[d] /\ x >= excused[d] /\ a <= accepted[d] + 1
          /\ confirmed => a > 0
          /\ ~confirmed => a + excused[d] <= accepted[d] + x
      BY <1>p, <2>1, <2>2
    <2>5. /\ accepted' \in [Deliveries -> Nat] /\ excused' \in [Deliveries -> Nat]
          /\ accepted'[d] = a /\ excused'[d] = x
      BY <2>1, <2>3, <2>4
    <2>6. \A e \in Deliveries \ {d} : accepted'[e] = accepted[e] /\ excused'[e] = excused[e]
      BY <2>1, <2>3
    <2>7. \A e \in Deliveries : accepted'[e] >= accepted[e] /\ excused'[e] >= excused[e]
      <3> SUFFICES ASSUME NEW e \in Deliveries
                   PROVE  accepted'[e] >= accepted[e] /\ excused'[e] >= excused[e]
        OBVIOUS
      <3>1. accepted[e] \in Nat /\ excused[e] \in Nat
        BY <2>1
      <3> HIDE DEF OutboxInv, Deliveries
      <3>2. CASE e = d
        BY <2>4, <2>5, <3>2
      <3>3. CASE e # d
        <4>1. accepted'[e] = accepted[e] /\ excused'[e] = excused[e]
          BY <2>6, <3>3
        <4> QED
          BY <3>1, <4>1
      <3> QED
        BY <3>2, <3>3
    <2>8. /\ confirmed => accepted'[d] > 0
          /\ accepted'[d] <= accepted[d] + 1
          /\ ~confirmed => accepted'[d] + excused[d] <= accepted[d] + excused'[d]
      <3> HIDE DEF OutboxInv, Deliveries
      <3> QED
        BY <2>4, <2>5
    <2> HIDE DEF OutboxInv, Deliveries
    <2> QED
      BY <2>5, <2>6, <2>7, <2>8
  <1>n. /\ \A e \in Deliveries : accepted[e] \in Nat /\ excused[e] \in Nat
        /\ \A e \in Deliveries : accepted'[e] \in Nat /\ excused'[e] \in Nat
    BY <1>a DEF TypeOK
  <1>e. /\ {accepted[d], excused[d], accepted'[d], excused'[d]} \subseteq Nat
        /\ accepted'[d] <= accepted[d] + 1 /\ excused'[d] >= excused[d]
        /\ ~confirmed => accepted'[d] + excused[d] <= accepted[d] + excused'[d]
    BY <1>a, <1>n
  <1>v. \A v \in Workers \ {w} : worker'[v] = worker[v]
    BY <1>w DEF TypeOK
  <1>x. worker'[w] = k
    BY <1>w DEF TypeOK
  <1>b. row[d].status # "none"
    BY <1>d DEF BusyInv
  <1>1. TypeOK'
    BY <1>a, <1>k, <1>w, <1>u DEF TypeOK
  <1>2. AttemptInv'
    BY <1>u DEF AttemptInv
  <1>s. StagedInv'
    <2> SUFFICES ASSUME NEW e \in Deliveries
                 PROVE  /\ e > staged <=> row[e].status = "none"
                        /\ row[e].status = "none" => accepted'[e] = 0
                        /\ row[e].status = "delivered" => accepted'[e] > 0
      BY <1>u DEF StagedInv
    <2>1. row[e].status = "none" => e # d
      BY <1>b
    <2>2. row[e].status = "none" => accepted'[e] = 0
      BY <1>a, <2>1 DEF StagedInv
    <2>3. row[e].status = "delivered" => accepted[e] > 0
      BY DEF StagedInv
    <2>4. row[e].status = "delivered" => accepted'[e] > 0
      BY <1>a, <1>n, <2>3
    <2> QED
      BY <2>2, <2>4 DEF StagedInv
  <1>3. OwnerInv'
    <2>1. \A e \in Deliveries : row[e].owner = w =>
            row[e].status = "claimed" /\ e = d /\ worker[w].attempt = row[e].attempts
      BY <1>d DEF OwnerInv
    <2> QED
      BY <1>k, <1>u, <1>v, <1>x, <2>1 DEF OwnerInv
  <1>4. BusyInv'
    <2> SUFFICES ASSUME NEW v \in Workers, worker'[v].pc # "idle"
                 PROVE  /\ worker'[v].delivery \in Deliveries
                        /\ row'[worker'[v].delivery].status # "none"
                        /\ worker'[v].outcome = "delivered" => accepted'[worker'[v].delivery] > 0
                        /\ worker'[v].pc # "sending" => worker'[v].outcome \in {"delivered", "failed"}
      BY DEF BusyInv
    <2>3. CASE v = w
      BY <1>a, <1>b, <1>d, <1>k, <1>u, <1>x, <2>3
    <2>4. CASE v # w
      <3>1. worker'[v] = worker[v]
        BY <1>v, <2>4
      <3>2. worker[v].outcome = "delivered" => accepted[worker[v].delivery] > 0
        BY <3>1 DEF BusyInv
      <3>3. worker[v].delivery \in Deliveries
        BY <3>1 DEF BusyInv
      <3>4. worker[v].outcome = "delivered" => accepted'[worker[v].delivery] > 0
        BY <1>a, <1>n, <3>2, <3>3
      <3> QED
        BY <1>u, <3>1, <3>3, <3>4 DEF BusyInv
    <2> QED
      BY <2>3, <2>4
  <1>5. LockInv'
    BY <1>k, <1>w, <1>u DEF LockInv, TypeOK
  <1>6. BudgetInv'
    <2>1. Senders(d)' = Senders(d) \ {w} /\ w \in Senders(d)
      BY <1>d, <1>k, <1>w DEF Senders, TypeOK
    <2>2. Cardinality(Senders(d)') = Cardinality(Senders(d)) - 1
      BY <2>1, FS_RemoveElement, SendersAreFinite
    <2>3. \A e \in Deliveries \ {d} : Senders(e)' = Senders(e)
      BY <1>d, <1>k, <1>w DEF Senders, TypeOK
    <2>4. \A e \in Deliveries \ {d} : Open(e)' => Open(e)
      <3> SUFFICES ASSUME NEW e \in Deliveries \ {d}, Open(e)' PROVE Open(e)
        OBVIOUS
      <3>1. \A v \in Workers \ {w} : worker'[v] = worker[v]
        BY <1>w DEF TypeOK
      <3>2. row[e].owner # w
        BY <1>d DEF OwnerInv
      <3> QED
        BY <1>u, <3>1, <3>2 DEF Open
    <2>5. Cardinality(Senders(d)) \in Nat
      BY SendersAreFinite
    <2>b. accepted[d] + Cardinality(Senders(d)) <= excused[d] + 1
      BY DEF BudgetInv
    <2>6. accepted'[d] + Cardinality(Senders(d)') <= excused'[d] + 1
      BY <1>e, <2>2, <2>5, <2>b
    <2>7. ASSUME Open(d)' PROVE accepted'[d] + Cardinality(Senders(d)') <= excused'[d]
      <3>1. CASE confirmed
        <4>1. Open(d)
          <5>1. worker'[w].outcome # "failed"
            BY <1>k, <1>w, <3>1 DEF TypeOK
          <5>2. \A v \in Workers \ {w} : worker'[v] = worker[v]
            BY <1>w DEF TypeOK
          <5> QED
            BY <1>u, <2>7, <5>1, <5>2 DEF Open
        <4> QED
          <5>1. accepted[d] + Cardinality(Senders(d)) <= excused[d]
            BY <4>1 DEF BudgetInv
          <5>2. accepted'[d] <= accepted[d] + 1 /\ excused'[d] >= excused[d]
            BY <1>a
          <5>3. /\ accepted[d] \in Nat /\ excused[d] \in Nat
                /\ accepted'[d] \in Nat /\ excused'[d] \in Nat
            BY <1>n
          <5> HIDE DEF OutboxInv, Deliveries
          <5> QED
            BY <2>2, <2>5, <5>1, <5>2, <5>3
      <3>2. CASE ~confirmed
        BY <1>e, <2>2, <2>5, <2>b, <3>2
      <3> QED
        BY <3>1, <3>2
    <2> QED
      BY <1>a, <2>3, <2>4, <2>6, <2>7 DEF BudgetInv
  <1> QED
    BY <1>1, <1>2, <1>s, <1>3, <1>4, <1>5, <1>6

\* A worker that was overtaken forgets its message.
LEMMA LoseClaimStep ==
    ASSUME NEW w \in Workers, OutboxInv, LoseClaim(w)
    PROVE  OutboxInv'
  <1> USE OutboxAssumption DEF OutboxInv, Deliveries
  <1>0. /\ worker[w].pc = "sent"
        /\ worker' = [worker EXCEPT ![w] = Idle]
        /\ UNCHANGED <<staged, row, deliveryStatus, accepted, excused, faults>>
    BY DEF LoseClaim
  <1>k. Idle \in Worker /\ Idle.pc = "idle"
    BY DEF Idle, Worker, Attempts
  <1>v. \A v \in Workers \ {w} : worker'[v] = worker[v]
    BY <1>0 DEF TypeOK
  <1>w. worker'[w] = Idle
    BY <1>0 DEF TypeOK
  <1>o. \A e \in Deliveries : row[e].owner # w
    BY DEF LoseClaim, OwnsClaim, OwnerInv
  <1>1. TypeOK'
    BY <1>0, <1>k DEF TypeOK
  <1>2. StagedInv' /\ AttemptInv'
    BY <1>0 DEF StagedInv, AttemptInv
  <1>3. OwnerInv'
    BY <1>0, <1>v, <1>o DEF OwnerInv
  <1>4. BusyInv' /\ LockInv'
    BY <1>0, <1>k, <1>v, <1>w DEF BusyInv, LockInv
  <1>5. BudgetInv'
    <2>1. \A e \in Deliveries : Senders(e)' = Senders(e)
      BY <1>0, <1>k, <1>v, <1>w DEF Senders
    <2>2. \A e \in Deliveries : Open(e)' => Open(e)
      BY <1>0, <1>v, <1>o DEF Open
    <2> QED
      BY <1>0, <2>1, <2>2 DEF BudgetInv
  <1> QED
    BY <1>1, <1>2, <1>3, <1>4, <1>5

\* A failed attempt goes back to the queue with an attempt left.
LEMMA RequeueStep ==
    ASSUME NEW w \in Workers, OutboxInv, Requeue(w)
    PROVE  OutboxInv'
  <1> USE OutboxAssumption DEF OutboxInv, Deliveries
  <1>d. PICK d \in Deliveries : worker[w].pc = "sent" /\ worker[w].delivery = d
    BY DEF Requeue, BusyInv
  <1> DEFINE r == [row[d] EXCEPT !.status = "pending", !.owner = NoOwner, !.live = FALSE]
  <1>0. /\ \A v \in Workers : ~(worker[v].pc = "settling" /\ worker[v].delivery = d)
        /\ row[d].status = "claimed" /\ row[d].owner = w
        /\ worker[w].outcome = "failed" /\ worker[w].attempt < MaxAttempts
        /\ worker' = [worker EXCEPT ![w] = Idle]
        /\ UNCHANGED <<staged, deliveryStatus, accepted, excused, faults>>
    BY <1>d DEF Requeue, Locked, OwnsClaim, GiveUp, TypeOK, Worker, Attempts
  <1>r. row' = [row EXCEPT ![d] = r]
    BY <1>d DEF Requeue, TypeOK
  <1>q. /\ r \in Row /\ r.status = "pending" /\ r.owner = NoOwner
        /\ r.attempts = row[d].attempts /\ r.attempts \in Nat
    <2>1. row[d] \in Row /\ row[d].attempts \in Nat
      BY DEF TypeOK, Row, Attempts
    <2> QED
      BY <2>1 DEF Row
  <1> HIDE DEF r
  <1>k. Idle \in Worker /\ Idle.pc = "idle"
    BY DEF Idle, Worker, Attempts
  <1>v. /\ worker'[w] = Idle /\ \A v \in Workers \ {w} : worker'[v] = worker[v]
        /\ row'[d] = r /\ \A e \in Deliveries \ {d} : row'[e] = row[e]
    BY <1>0, <1>r DEF TypeOK
  <1>1. TypeOK'
    BY <1>0, <1>k, <1>r, <1>q DEF TypeOK
  <1>2. StagedInv'
    BY <1>0, <1>q, <1>v DEF StagedInv
  <1>3. OwnerInv'
    <2>1. \A e \in Deliveries \ {d} : row[e].owner # w
      BY <1>d DEF OwnerInv
    <2> QED
      BY <1>q, <1>v, <2>1 DEF OwnerInv
  <1>4. BusyInv'
    BY <1>0, <1>k, <1>q, <1>v DEF BusyInv
  <1>5. LockInv'
    BY <1>0, <1>k, <1>v DEF LockInv, BusyInv
  <1>6. AttemptInv'
    <2>1. row[d].attempts < MaxAttempts /\ row[d].attempts <= MaxAttempts + faults
      BY <1>0 DEF OwnerInv, AttemptInv
    <2> QED
      BY <1>0, <1>q, <1>v, <2>1 DEF AttemptInv
  <1>7. BudgetInv'
    <2>1. \A e \in Deliveries : Senders(e)' = Senders(e)
      BY <1>d, <1>k, <1>v DEF Senders
    <2>2. Open(d)
      BY <1>d, <1>0 DEF Open
    <2>3. \A e \in Deliveries \ {d} : Open(e)' => Open(e)
      BY <1>k, <1>v DEF Open
    <2> QED
      BY <1>0, <2>1, <2>2, <2>3 DEF BudgetInv
  <1> QED
    BY <1>1, <1>2, <1>3, <1>4, <1>5, <1>6, <1>7

\* The settlement locks the row its worker still owns.
LEMMA BeginSettleStep ==
    ASSUME NEW w \in Workers, OutboxInv, BeginSettle(w)
    PROVE  OutboxInv'
  <1> USE OutboxAssumption DEF OutboxInv, Deliveries
  <1>d. PICK d \in Deliveries : worker[w].pc = "sent" /\ worker[w].delivery = d
    BY DEF BeginSettle, BusyInv
  <1> DEFINE k == [worker[w] EXCEPT !.pc = "settling", !.delivery = d,
                        !.outcome = worker[w].outcome, !.latest = (d = staged)]
  <1>0. /\ \A v \in Workers : ~(worker[v].pc = "settling" /\ worker[v].delivery = d)
        /\ row[d].status = "claimed" /\ row[d].owner = w
        /\ UNCHANGED <<staged, row, deliveryStatus, accepted, excused, faults>>
    BY <1>d DEF BeginSettle, Locked, OwnsClaim
  <1>k. /\ k \in Worker /\ k.pc = "settling" /\ k.delivery = d
        /\ k.attempt = worker[w].attempt /\ k.outcome = worker[w].outcome
    BY <1>d DEF TypeOK, Worker
  <1>w. worker' = [worker EXCEPT ![w] = k]
    BY <1>d DEF BeginSettle, Settling, TypeOK
  <1> HIDE DEF k
  <1>v. worker'[w] = k /\ \A v \in Workers \ {w} : worker'[v] = worker[v]
    BY <1>w DEF TypeOK
  <1>1. TypeOK'
    BY <1>0, <1>k, <1>w DEF TypeOK
  <1>2. StagedInv' /\ AttemptInv'
    BY <1>0 DEF StagedInv, AttemptInv
  <1>3. OwnerInv'
    <2>1. \A e \in Deliveries : row[e].owner = w =>
            row[e].status = "claimed" /\ e = d /\ worker[w].attempt = row[e].attempts
      BY <1>d DEF OwnerInv
    <2> QED
      BY <1>0, <1>k, <1>v, <2>1 DEF OwnerInv
  <1>4. BusyInv'
    BY <1>d, <1>0, <1>k, <1>v DEF BusyInv
  <1>5. LockInv'
    BY <1>0, <1>k, <1>v DEF LockInv
  <1>6. BudgetInv'
    <2>1. \A e \in Deliveries : Senders(e)' = Senders(e)
      BY <1>d, <1>k, <1>v DEF Senders
    <2>2. \A e \in Deliveries : Open(e)' => Open(e)
      BY <1>0, <1>k, <1>v DEF Open
    <2> QED
      BY <1>0, <2>1, <2>2 DEF BudgetInv
  <1> QED
    BY <1>1, <1>2, <1>3, <1>4, <1>5, <1>6

\* The outcome is committed on the row behind the lock.
LEMMA CommitStep ==
    ASSUME NEW w \in Workers, OutboxInv, Commit(w)
    PROVE  OutboxInv'
  <1> USE OutboxAssumption DEF OutboxInv, Deliveries
  <1>d. PICK d \in Deliveries : worker[w].pc = "settling" /\ worker[w].delivery = d
    BY DEF Commit, BusyInv
  <1> DEFINE r == [row[d] EXCEPT !.status = worker[w].outcome, !.owner = NoOwner,
                                 !.live = FALSE]
  <1>o. /\ worker[w].outcome \in {"delivered", "failed"}
        /\ worker[w].outcome = "delivered" => accepted[d] > 0
        /\ row[d].status \in {"pending", "claimed"}
    BY <1>d DEF BusyInv, LockInv
  <1>0. /\ worker' = [worker EXCEPT ![w] = Idle]
        /\ UNCHANGED <<staged, accepted, excused, faults>>
    BY DEF Commit
  <1>r. row' = [row EXCEPT ![d] = r]
    BY <1>d DEF Commit, TypeOK
  <1>q. /\ r \in Row /\ r.status = worker[w].outcome /\ r.owner = NoOwner
        /\ r.attempts = row[d].attempts
    BY <1>o DEF TypeOK, Row, Attempts
  <1> HIDE DEF r
  <1>k. Idle \in Worker /\ Idle.pc = "idle"
    BY DEF Idle, Worker, Attempts
  <1>v. /\ worker'[w] = Idle /\ \A v \in Workers \ {w} : worker'[v] = worker[v]
        /\ row'[d] = r /\ \A e \in Deliveries \ {d} : row'[e] = row[e]
    BY <1>0, <1>r DEF TypeOK
  <1>1. TypeOK'
    <2>1. deliveryStatus' \in {"none", "pending", "delivered", "failed"}
      BY <1>o DEF Commit, TypeOK
    <2> QED
      BY <1>0, <1>k, <1>r, <1>q, <2>1 DEF TypeOK
  <1>2. StagedInv'
    BY <1>0, <1>o, <1>q, <1>v DEF StagedInv
  <1>3. OwnerInv'
    <2>1. \A e \in Deliveries \ {d} : row[e].owner # w
      BY <1>d DEF OwnerInv
    <2> QED
      BY <1>q, <1>v, <2>1 DEF OwnerInv
  <1>4. BusyInv'
    BY <1>0, <1>k, <1>o, <1>q, <1>v DEF BusyInv
  <1>5. LockInv'
    BY <1>d, <1>0, <1>k, <1>v DEF LockInv, BusyInv
  <1>6. AttemptInv'
    BY <1>0, <1>o, <1>q, <1>v DEF AttemptInv
  <1>7. BudgetInv'
    <2>1. \A e \in Deliveries : Senders(e)' = Senders(e)
      BY <1>d, <1>k, <1>v DEF Senders
    <2>2. \A e \in Deliveries \ {d} : Open(e)' => Open(e)
      BY <1>k, <1>v DEF Open
    <2>3. ~Open(d)'
      BY <1>o, <1>q, <1>v DEF Open
    <2> QED
      BY <1>0, <2>1, <2>2, <2>3 DEF BudgetInv
  <1> QED
    BY <1>1, <1>2, <1>3, <1>4, <1>5, <1>6, <1>7

\* A claim that runs out is an excuse, and the fault behind it has been counted.
LEMMA ExpiredStep ==
    ASSUME NEW d \in Deliveries, OutboxInv, Expire(d) \/ Outlive(d)
    PROVE  OutboxInv'
  <1> USE OutboxAssumption DEF OutboxInv, Deliveries
  <1> DEFINE r == [row[d] EXCEPT !.live = FALSE]
  <1>0. /\ row[d].status = "claimed" /\ row' = [row EXCEPT ![d] = r]
        /\ excused' = [excused EXCEPT ![d] = @ + 1]
        /\ UNCHANGED <<staged, deliveryStatus, worker, accepted>>
    BY DEF Expire, Outlive, Expired
  <1>f. /\ faults' \in 0..MaxFaults /\ faults' >= faults
        /\ row[d].owner = Gone \/ faults' = faults + 1
    BY DEF Expire, Outlive, TypeOK
  <1>q. /\ r \in Row /\ r.status = "claimed" /\ r.owner = row[d].owner
        /\ r.attempts = row[d].attempts /\ r.attempts \in Nat
    <2>1. row[d] \in Row /\ row[d].attempts \in Nat
      BY DEF TypeOK, Row, Attempts
    <2> HIDE DEF OutboxInv, Deliveries
    <2> QED
      BY <1>0, <2>1 DEF Row
  <1> HIDE DEF r
  <1>v. row'[d] = r /\ \A e \in Deliveries \ {d} : row'[e] = row[e]
    <2>1. row \in [Deliveries -> Row] /\ row' = [row EXCEPT ![d] = r]
      BY <1>0 DEF TypeOK
    <2> HIDE DEF OutboxInv, Deliveries
    <2> QED
      BY <2>1
  <1>1. TypeOK'
    <2>1. TypeOK /\ row \in [Deliveries -> Row] /\ excused \in [Deliveries -> Nat]
      BY DEF TypeOK
    <2> HIDE DEF OutboxInv, Deliveries
    <2>2. row' \in [Deliveries -> Row] /\ excused' \in [Deliveries -> Nat]
      BY <1>0, <1>q, <2>1
    <2> QED
      BY <1>0, <1>f, <2>1, <2>2 DEF TypeOK
  <1>2. StagedInv'
    BY <1>0, <1>q, <1>v DEF StagedInv
  <1>3. OwnerInv'
    BY <1>0, <1>q, <1>v DEF OwnerInv
  <1>4. BusyInv'
    BY <1>0, <1>q, <1>v DEF BusyInv
  <1>5. LockInv'
    <2>1. LockInv /\ BusyInv /\ worker' = worker
      BY <1>0
    <2> HIDE DEF OutboxInv, Deliveries
    <2>2. \A e \in Deliveries : row'[e].status = row[e].status
      BY <1>0, <1>q, <1>v
    <2>3. \A w \in Workers : worker[w].pc = "settling" => worker[w].delivery \in Deliveries
      BY <2>1 DEF BusyInv
    <2> QED
      BY <2>1, <2>2, <2>3 DEF LockInv
  <1>6. AttemptInv'
    <2>1. row[d].attempts < MaxAttempts + faults'
      <3>1. /\ row[d].attempts <= MaxAttempts + faults
            /\ row[d].owner = Gone => row[d].attempts < MaxAttempts + faults
        BY <1>0 DEF AttemptInv
      <3>2. /\ row[d].attempts \in Nat /\ MaxAttempts \in Nat
            /\ faults \in Nat /\ faults' \in Nat
        BY <1>f, <1>q DEF TypeOK
      <3> HIDE DEF OutboxInv, Deliveries
      <3> QED
        BY <1>f, <3>1, <3>2
    <2>2. \A e \in Deliveries : row[e].attempts \in Nat
      BY DEF TypeOK, Row, Attempts
    <2>3. faults \in Nat /\ faults' \in Nat
      BY <1>f DEF TypeOK
    <2> SUFFICES ASSUME NEW e \in Deliveries
                 PROVE  /\ row'[e].attempts <= MaxAttempts + faults'
                        /\ row'[e].status \in {"none", "pending"} => row'[e].attempts < MaxAttempts
                        /\ row'[e].status = "claimed" /\ (row'[e].owner = Gone \/ ~row'[e].live)
                            => row'[e].attempts < MaxAttempts + faults'
      BY DEF AttemptInv
    <2>4. CASE e = d
      BY <1>q, <1>v, <2>1, <2>3, <2>4
    <2>5. CASE e # d
      BY <1>f, <1>v, <2>2, <2>3, <2>5 DEF AttemptInv
    <2> QED
      BY <2>4, <2>5
  <1>7. BudgetInv'
    <2>1. \A e \in Deliveries : Senders(e)' = Senders(e)
      BY <1>0 DEF Senders
    <2>2. \A e \in Deliveries \ {d} : Open(e)' => Open(e)
      BY <1>0, <1>v DEF Open
    <2>3. /\ accepted[d] \in Nat /\ excused[d] \in Nat /\ excused'[d] = excused[d] + 1
          /\ \A e \in Deliveries \ {d} : excused'[e] = excused[e]
      BY <1>0 DEF TypeOK
    <2>4. Cardinality(Senders(d)) \in Nat
      BY SendersAreFinite
    <2>5. accepted[d] + Cardinality(Senders(d)) <= excused[d] + 1
      BY DEF BudgetInv
    <2>6. accepted[d] + Cardinality(Senders(d)) <= excused'[d]
      BY <2>3, <2>5
    <2>7. accepted[d] + Cardinality(Senders(d)) <= excused'[d] + 1
      BY <2>3, <2>4, <2>5
    <2> QED
      BY <1>0, <2>1, <2>2, <2>3, <2>6, <2>7 DEF BudgetInv
  <1> QED
    BY <1>1, <1>2, <1>3, <1>4, <1>5, <1>6, <1>7

\* A dead worker sends nothing more, and its claims are nobody's.
LEMMA CrashStep ==
    ASSUME NEW w \in Workers, OutboxInv, Crash(w)
    PROVE  OutboxInv'
  <1> USE OutboxAssumption DEF OutboxInv, Deliveries
  <1> DEFINE r(d) == [row[d] EXCEPT !.owner = Gone]
  <1>0. /\ worker' = [worker EXCEPT ![w] = Idle]
        /\ UNCHANGED <<staged, deliveryStatus, accepted, excused>>
        /\ row' = [d \in Deliveries |-> IF row[d].owner = w THEN r(d) ELSE row[d]]
    BY DEF Crash
  <1>f. faults \in Nat /\ faults' = faults + 1 /\ faults' \in 0..MaxFaults
    BY DEF Crash, TypeOK
  <1>q. \A d \in Deliveries :
            /\ r(d) \in Row /\ r(d).status = row[d].status /\ r(d).owner = Gone
            /\ r(d).live = row[d].live /\ r(d).attempts = row[d].attempts
    BY DEF TypeOK, Row
  <1> HIDE DEF r
  <1>k. Idle \in Worker /\ Idle.pc = "idle"
    BY DEF Idle, Worker, Attempts
  <1>v. worker'[w] = Idle /\ \A v \in Workers \ {w} : worker'[v] = worker[v]
    BY <1>0 DEF TypeOK
  <1>r. \A d \in Deliveries :
            /\ row'[d] \in Row /\ row'[d].status = row[d].status
            /\ row'[d].live = row[d].live /\ row'[d].attempts = row[d].attempts
            /\ row[d].owner = w => row'[d].owner = Gone
            /\ row[d].owner # w => row'[d].owner = row[d].owner
    BY <1>0, <1>q DEF TypeOK
  <1>1. TypeOK'
    <2>1. row' \in [Deliveries -> Row]
      BY <1>0, <1>r
    <2> QED
      BY <1>0, <1>f, <1>k, <2>1 DEF TypeOK
  <1>2. StagedInv'
    BY <1>0, <1>r DEF StagedInv
  <1>3. OwnerInv'
    BY <1>r, <1>v DEF OwnerInv
  <1>4. BusyInv'
    BY <1>0, <1>k, <1>r, <1>v DEF BusyInv
  <1>5. LockInv'
    BY <1>k, <1>r, <1>v DEF LockInv, BusyInv
  <1>6. AttemptInv'
    <2>1. \A d \in Deliveries : row[d].attempts \in Nat
      BY DEF TypeOK, Row, Attempts
    <2>2. \A d \in Deliveries : row[d].attempts < MaxAttempts + faults'
      BY <1>f, <2>1 DEF AttemptInv
    <2>3. \A d \in Deliveries : row[d].attempts <= MaxAttempts + faults'
      BY <1>f, <2>1, <2>2
    <2> QED
      BY <1>r, <2>2, <2>3 DEF AttemptInv
  <1>7. BudgetInv'
    <2>1. \A d \in Deliveries : Cardinality(Senders(d)') <= Cardinality(Senders(d))
      <3> SUFFICES ASSUME NEW d \in Deliveries
                   PROVE  Cardinality(Senders(d)') <= Cardinality(Senders(d))
        OBVIOUS
      <3>1. Senders(d)' \in SUBSET Senders(d)
        BY <1>k, <1>v DEF Senders
      <3> QED
        BY <3>1, FS_Subset, SendersAreFinite
    <2>2. \A d \in Deliveries : Open(d)' => Open(d)
      <3> SUFFICES ASSUME NEW d \in Deliveries, Open(d)' PROVE Open(d)
        OBVIOUS
      <3>1. \A v \in Workers : row'[d].owner = v => row[d].owner = v /\ v # w
        BY <1>r
      <3> QED
        BY <1>r, <1>v, <3>1 DEF Open
    <2>3. \A d \in Deliveries : Cardinality(Senders(d)) \in Nat /\ Cardinality(Senders(d)') \in Nat
      <3>1. \A d \in Deliveries : Senders(d)' \in SUBSET Workers
        BY DEF Senders
      <3>2. \A d \in Deliveries : IsFiniteSet(Senders(d)')
        BY <3>1, FS_Subset
      <3> QED
        BY <3>2, SendersAreFinite, FS_CardinalityType
    <2>4. \A d \in Deliveries : accepted[d] \in Nat /\ excused[d] \in Nat
      BY DEF TypeOK
    <2> SUFFICES ASSUME NEW d \in Deliveries
                 PROVE  /\ accepted'[d] + Cardinality(Senders(d)') <= excused'[d] + 1
                        /\ Open(d)' => accepted'[d] + Cardinality(Senders(d)') <= excused'[d]
      BY DEF BudgetInv
    <2>5. /\ accepted[d] + Cardinality(Senders(d)) <= excused[d] + 1
          /\ Open(d) => accepted[d] + Cardinality(Senders(d)) <= excused[d]
      BY DEF BudgetInv
    <2>6. /\ {accepted[d], excused[d], Cardinality(Senders(d)), Cardinality(Senders(d)')} \subseteq Nat
          /\ Cardinality(Senders(d)') <= Cardinality(Senders(d))
          /\ Open(d)' => Open(d)
          /\ accepted'[d] = accepted[d] /\ excused'[d] = excused[d]
      BY <1>0, <2>1, <2>2, <2>3, <2>4
    <2> QED
      BY <2>5, <2>6
  <1> QED
    BY <1>1, <1>2, <1>3, <1>4, <1>5, <1>6, <1>7

\* Every step keeps the invariant.
LEMMA OutboxStep == OutboxInv /\ [Next]_vars => OutboxInv'
  <1> SUFFICES ASSUME OutboxInv, [Next]_vars PROVE OutboxInv'
    OBVIOUS
  <1>1. ASSUME NEW w \in Workers, Work(w) PROVE OutboxInv'
    BY <1>1, SendStep, LoseClaimStep, RequeueStep, BeginSettleStep, CommitStep DEF Work
  <1>2. CASE UNCHANGED vars
    BY <1>2 DEF vars, OutboxInv, TypeOK, StagedInv, OwnerInv, BusyInv, LockInv, AttemptInv,
                BudgetInv, Senders, Open
  <1> QED
    BY <1>1, <1>2, StageStep, WithoutRowStep, ClaimStep, ClaimMissingStep, ExpiredStep,
       CrashStep DEF Next

\* channel_deliveries keeps its types, and no row's attempt count passes the limit
\* by more than the workers that died or outlived their claims (_claim, _fail).
THEOREM OutboxTypeCorrect == Spec => []TypeOK
  <1>1. OutboxInv => TypeOK
    BY DEF OutboxInv
  <1> QED
    BY OutboxInit, OutboxStep, <1>1, PTL DEF Spec

\* Whatever is recorded as delivered the provider has accepted (_complete).
THEOREM OutboxDeliveredWasAccepted == Spec => []DeliveredWasAccepted
  <1>1. OutboxInv => DeliveredWasAccepted
    BY DEF OutboxInv, StagedInv, DeliveredWasAccepted
  <1> QED
    BY OutboxInit, OutboxStep, <1>1, PTL DEF Spec

\* The provider receives a message at most once more than claims on it expired or
\* answers were lost, for any number of workers (_claim, _locked_claim, _fail).
THEOREM OutboxDuplicatesAreExcused == Spec => []DuplicatesAreExcused
  <1>1. OutboxInv => DuplicatesAreExcused
    <2> SUFFICES ASSUME OutboxInv, NEW d \in Deliveries
                 PROVE  accepted[d] <= excused[d] + 1
      BY DEF DuplicatesAreExcused
    <2>1. accepted[d] + Cardinality(Senders(d)) <= excused[d] + 1
      BY DEF OutboxInv, BudgetInv
    <2>2. Cardinality(Senders(d)) \in Nat
      BY SendersAreFinite
    <2>3. accepted[d] \in Nat /\ excused[d] \in Nat
      BY DEF OutboxInv, TypeOK
    <2> QED
      BY <2>1, <2>2, <2>3
  <1> QED
    BY OutboxInit, OutboxStep, <1>1, PTL DEF Spec

\* No step revises a delivered or failed row: a worker that lost its claim finds
\* it gone (_locked_claim), and the lock keeps the two settlements apart.
THEOREM OutboxOutcomeIsFinal == Spec => OutcomeIsFinal
  <1> DEFINE Final == \A d \in Deliveries :
                        row[d].status \in {"delivered", "failed"} => row'[d] = row[d]
  <1>1. OutboxInv /\ [Next]_vars => Final
    <2> SUFFICES ASSUME OutboxInv, [Next]_vars, NEW d \in Deliveries,
                        row[d].status \in {"delivered", "failed"}
                 PROVE  row'[d] = row[d]
      OBVIOUS
    <2> USE DEF OutboxInv
    <2>1. CASE Stage
      <3>1. d # staged + 1
        BY <2>1 DEF Stage, StagedInv, TypeOK, Deliveries
      <3> QED
        BY <2>1, <3>1 DEF Stage, TypeOK
    <2>2. ASSUME NEW w \in Workers, NEW e \in Deliveries, Claim(w, e) \/ ClaimMissing(w, e)
          PROVE  row'[d] = row[d]
      BY <2>2 DEF Claim, ClaimMissing, Claimable, TypeOK
    <2>3. ASSUME NEW w \in Workers, Work(w) PROVE row'[d] = row[d]
      <3>1. CASE Send(w) \/ LoseClaim(w) \/ BeginSettle(w)
        BY <3>1 DEF Send, LoseClaim, BeginSettle
      <3>2. CASE Requeue(w)
        BY <3>2 DEF Requeue, OwnsClaim, TypeOK
      <3>3. CASE Commit(w)
        <4>1. d # worker[w].delivery
          BY <3>3 DEF Commit, LockInv
        <4> QED
          BY <3>3, <4>1 DEF Commit, TypeOK
      <3> QED
        BY <2>3, <3>1, <3>2, <3>3 DEF Work
    <2>4. ASSUME NEW e \in Deliveries, Expire(e) \/ Outlive(e) PROVE row'[d] = row[d]
      BY <2>4 DEF Expire, Outlive, Expired, TypeOK
    <2>5. ASSUME NEW w \in Workers, Crash(w) PROVE row'[d] = row[d]
      BY <2>5 DEF Crash, OwnerInv
    <2>6. CASE UNCHANGED vars
      BY <2>6 DEF vars
    <2>7. ASSUME NEW status \in {"delivered", "failed"}, DeliverWithoutRow(status)
          PROVE  row'[d] = row[d]
      BY <2>7 DEF DeliverWithoutRow
    <2> QED
      BY <2>1, <2>2, <2>3, <2>4, <2>5, <2>6, <2>7 DEF Next
  <1> QED
    BY OutboxInit, OutboxStep, <1>1, PTL DEF Spec, OutcomeIsFinal
=============================================================================

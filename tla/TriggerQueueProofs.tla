--------------------------- MODULE TriggerQueueProofs ---------------------------
(***************************************************************************)
(* Trigger occurrences, proved for every set of occurrences, Triggers and  *)
(* Agents, every fire limit and every number of claims, tasks and          *)
(* invocation slots.                                                       *)
(***************************************************************************)
EXTENDS TriggerQueue, FiniteSetTheorems, TLAPS

\* A row holds a token or a lease only while it is unfinished; a Run exists once its row has
\* been accepted; a projection has a finished Run behind it.
RowInv ==
    \A o \in Occurrences :
        /\ row[o].token # NoToken => Status(o) = "processing"
        /\ row[o].lease # "none" => Status(o) = "processing"
        /\ Status(o) \in {"absent", "stamped"} => run[o] = "none"
        /\ o \in receipt => run[o] \in {"completed", "failed"}

QueueInv == TypeOK /\ RowInv /\ ProjectedRowIsFinal /\ OneOwnerPerAgent

\* A settled record is a record, without owner and lease.
LEMMA SettledRecord ==
    ASSUME NEW r \in Row, NEW s \in Statuses
    PROVE  /\ Settled(r, s) \in Row
           /\ Settled(r, s).status = s
           /\ Settled(r, s).token = NoToken
           /\ Settled(r, s).lease = "none"
           /\ Settled(r, s).manual = r.manual
  BY TriggerAssumption DEF Settled, Row, Leases

\* Disabling a Trigger and counting a fire keep its record.
LEMMA TriggerRecord ==
    ASSUME NEW x \in Trigger, NEW b \in BOOLEAN
    PROVE  /\ [x EXCEPT !.enabled = b] \in Trigger
           /\ [[x EXCEPT !.fires = x.fires + 1] EXCEPT !.enabled = b] \in Trigger
  <1>1. ASSUME NEW y \in Trigger PROVE [y EXCEPT !.enabled = b] \in Trigger
    BY DEF Trigger
  <1>2. [x EXCEPT !.fires = x.fires + 1] \in Trigger
    BY DEF Trigger
  <1> QED
    BY <1>1, <1>2

\* The initial tables are typed and empty.
LEMMA QueueInit == Init => QueueInv
  <1> SUFFICES ASSUME Init PROVE QueueInv
    OBVIOUS
  <1> USE TriggerAssumption
  <1>1. TypeOK
    <2>1. [status |-> "absent", manual |-> FALSE, token |-> NoToken,
           lease |-> "none", claims |-> 0] \in Row
      BY DEF Row, Statuses, Leases
    <2>3. trigger \in [Triggers -> Trigger]
      BY DEF Init, Trigger
    <2>4. row \in [Occurrences -> Row] /\ task \in [Occurrences -> [Tokens -> TaskPhases]]
      BY <2>1 DEF Init, TaskPhases
    <2>5. tally \in [Triggers -> Tally] /\ seen \in [Occurrences -> Nat]
      BY DEF Init, Tally
    <2> QED
      BY <2>3, <2>4, <2>5 DEF Init, TypeOK, RunStatuses
  <1> QED
    BY <1>1 DEF Init, QueueInv, RowInv, ProjectedRowIsFinal, OneOwnerPerAgent, Status

\* A step that leaves the rows, the Runs and the receipts alone.
LEMMA RowsUntouched ==
    ASSUME QueueInv, UNCHANGED <<row, run, receipt>>
    PROVE  RowInv' /\ ProjectedRowIsFinal' /\ OneOwnerPerAgent'
  BY DEF QueueInv, RowInv, ProjectedRowIsFinal, OneOwnerPerAgent, Status, SameAgent

\* A step that replaces one row and keeps the Runs: the row was unfinished, and
\* gains no owner.
LEMMA OneRowChanges ==
    ASSUME QueueInv, NEW o \in Occurrences, NEW r \in Row,
           row' = [row EXCEPT ![o] = r], UNCHANGED <<run, receipt>>,
           Status(o) \notin {"completed", "failed"},
           r.token \in {NoToken, row[o].token},
           r.token # NoToken => r.status = "processing",
           r.lease # "none" => r.status = "processing",
           r.status \in {"absent", "stamped"} => Status(o) \in {"absent", "stamped"}
    PROVE  row' \in [Occurrences -> Row] /\ RowInv' /\ ProjectedRowIsFinal' /\ OneOwnerPerAgent'
  <1> USE DEF QueueInv, Status
  <1>1. row'[o] = r /\ \A e \in Occurrences \ {o} : row'[e] = row[e]
    BY DEF TypeOK
  <1>2. row' \in [Occurrences -> Row]
    BY DEF TypeOK
  <1>3. o \notin receipt
    BY DEF RowInv, ProjectedRowIsFinal
  <1>4. RowInv'
    BY <1>1 DEF RowInv
  <1>5. ProjectedRowIsFinal'
    BY <1>1, <1>3 DEF ProjectedRowIsFinal, TypeOK
  <1>6. OneOwnerPerAgent'
    BY <1>1 DEF OneOwnerPerAgent, SameAgent
  <1> QED
    BY <1>2, <1>4, <1>5, <1>6

\* The fence holds for unfinished rows, so Mark settles one or none.
LEMMA MarkStep ==
    ASSUME QueueInv, NEW o \in Occurrences, NEW g \in Tokens,
           NEW s \in {"completed", "failed"}, Mark(o, g, s),
           UNCHANGED <<before, seen, tally, run, receipt>>, Proceed(o, g, "done")
    PROVE  QueueInv'
  <1> USE DEF QueueInv
  <1>1. task' \in [Occurrences -> [Tokens -> TaskPhases]]
    BY DEF Proceed, TypeOK, TaskPhases
  <1>2. CASE Fence(o, g)
    <2>1. row' = [row EXCEPT ![o] = Settled(row[o], s)] /\ trigger' = DisabledAtCapacity(o)
      BY <1>2 DEF Mark, TypeOK
    <2>2. s \in Statuses /\ row[o] \in Row
      BY DEF TypeOK, Statuses
    <2>3. row' \in [Occurrences -> Row] /\ RowInv' /\ ProjectedRowIsFinal' /\ OneOwnerPerAgent'
      <3>1. Settled(row[o], s) \in Row /\ Settled(row[o], s).status = s
            /\ Settled(row[o], s).token = NoToken /\ Settled(row[o], s).lease = "none"
        BY <2>2, SettledRecord
      <3> HIDE DEF QueueInv
      <3>2. Status(o) = "processing"
        BY <1>2 DEF Fence
      <3> QED
        BY <2>1, <3>1, <3>2, OneRowChanges
    <2>4. trigger' \in [Triggers -> Trigger]
      <3> DEFINE t == TriggerOf[o]
                 b == trigger[t].enabled /\ ~(AtCapacity(t) /\
                        {e \in Occurrences \ {o} : TriggerOf[e] = t /\ Status(e) = "processing"} = {})
      <3>1. trigger' = [trigger EXCEPT ![t].enabled = b]
        BY <2>1 DEF DisabledAtCapacity
      <3>2. b \in BOOLEAN
        OBVIOUS
      <3> HIDE DEF b
      <3>3. trigger' = [trigger EXCEPT ![t] = [trigger[t] EXCEPT !.enabled = b]]
        BY <3>1
      <3> QED
        BY <3>2, <3>3, TriggerRecord, TriggerAssumption DEF TypeOK
    <2> QED
      BY <1>1, <2>3, <2>4 DEF TypeOK
  <1>3. CASE ~Fence(o, g)
    <2>1. UNCHANGED <<row, trigger>>
      BY <1>3 DEF Mark
    <2> QED
      BY <1>1, <2>1, RowsUntouched DEF TypeOK
  <1> QED
    BY <1>2, <1>3

\* A meeting that loads its Trigger has no row yet.
LEMMA CallStep ==
    ASSUME QueueInv, NEW o \in Occurrences, CallMeeting(o) PROVE QueueInv'
  <1> USE DEF QueueInv
  <1> DEFINE r == [row[o] EXCEPT !.manual = TRUE]
  <1>1. /\ row' = [row EXCEPT ![o] = r] /\ Status(o) = "absent"
        /\ seen' = [seen EXCEPT ![o] = trigger[TriggerOf[o]].fires]
        /\ UNCHANGED <<before, trigger, tally, task, run, receipt>>
    BY DEF CallMeeting, TypeOK
  <1>2. /\ r \in Row /\ r.status = row[o].status
        /\ r.token = row[o].token /\ r.lease = row[o].lease
    BY DEF TypeOK, Row
  <1>3. row[o].token = NoToken /\ row[o].lease = "none" /\ row[o].status = "absent"
    BY <1>1 DEF RowInv, Status
  <1> HIDE DEF r
  <1>4. seen' \in [Occurrences -> Nat]
    <2>1. trigger[TriggerOf[o]] \in Trigger
      BY TriggerAssumption DEF TypeOK
    <2>2. trigger[TriggerOf[o]].fires \in Nat
      BY <2>1 DEF Trigger
    <2> QED
      BY <1>1, <2>2 DEF TypeOK
  <1>5. row' \in [Occurrences -> Row] /\ RowInv' /\ ProjectedRowIsFinal' /\ OneOwnerPerAgent'
    <2> HIDE DEF QueueInv
    <2> QED
      BY <1>1, <1>2, <1>3, OneRowChanges
  <1> QED
    BY <1>1, <1>4, <1>5 DEF TypeOK

\* Registration: the rows it changes are stamped, so none of them is projected.
LEMMA StampStep ==
    ASSUME QueueInv, NEW o \in Occurrences, Stamp(o) PROVE QueueInv'
  <1> USE DEF QueueInv
  <1> DEFINE r == [row[o] EXCEPT !.status = "stamped"]
  <1>1. /\ row' = [row EXCEPT ![o] = r] /\ Status(o) = "absent"
        /\ UNCHANGED <<trigger, seen, tally, task, run, receipt>>
    BY DEF Stamp, TypeOK
  <1>2. r \in Row /\ r.status = "stamped" /\ r.token = row[o].token /\ r.lease = row[o].lease
    BY DEF TypeOK, Row, Statuses
  <1>3. row[o].token = NoToken /\ row[o].lease = "none"
    BY <1>1 DEF RowInv
  <1> HIDE DEF r
  <1>4. before' \in [Occurrences -> SUBSET Occurrences]
    <2>1. {e \in Occurrences : Status(e) # "absent"} \in SUBSET Occurrences
      OBVIOUS
    <2> QED
      BY <2>1 DEF Stamp, TypeOK
  <1>5. row' \in [Occurrences -> Row] /\ RowInv' /\ ProjectedRowIsFinal' /\ OneOwnerPerAgent'
    <2> HIDE DEF QueueInv
    <2> QED
      BY <1>1, <1>2, <1>3, OneRowChanges
  <1> QED
    BY <1>1, <1>4, <1>5 DEF TypeOK

\* A refused or rejected occurrence is a failed row without Run, claim or messages.
LEMMA RefusalStep ==
    ASSUME QueueInv, NEW o \in Occurrences, Refuse(o) \/ Reject(o)
    PROVE  QueueInv'
  <1> USE DEF QueueInv
  <1> DEFINE r == Settled(row[o], "failed")
             t == TriggerOf[o]
  <1>1. /\ row' = [row EXCEPT ![o] = r] /\ Status(o) = "stamped"
        /\ UNCHANGED <<before, seen, tally, task, run, receipt>>
    BY DEF Refuse, Reject, TypeOK
  <1>2. r \in Row /\ r.status = "failed" /\ r.token = NoToken /\ r.lease = "none"
    BY SettledRecord DEF TypeOK, Statuses
  <1>3. trigger' \in [Triggers -> Trigger]
    <2> DEFINE b == trigger[t].enabled /\ ~AtCapacity(t)
    <2>1. b \in BOOLEAN
      OBVIOUS
    <2>2. trigger' = trigger \/ trigger' = [trigger EXCEPT ![t].enabled = b]
      BY DEF Refuse, Reject
    <2> HIDE DEF b
    <2>3. CASE trigger' = [trigger EXCEPT ![t].enabled = b]
      <3>1. trigger' = [trigger EXCEPT ![t] = [trigger[t] EXCEPT !.enabled = b]]
        BY <2>3
      <3> QED
        BY <2>1, <3>1, TriggerRecord, TriggerAssumption DEF TypeOK
    <2> QED
      BY <2>2, <2>3 DEF TypeOK
  <1>4. row' \in [Occurrences -> Row] /\ RowInv' /\ ProjectedRowIsFinal' /\ OneOwnerPerAgent'
    <2> HIDE DEF QueueInv, r
    <2> QED
      BY <1>1, <1>2, OneRowChanges
  <1> QED
    BY <1>1, <1>3, <1>4 DEF TypeOK

\* A Run is registered together with its row.
LEMMA AcceptStep ==
    ASSUME QueueInv, NEW o \in Occurrences, Accept(o) \/ StartMeeting(o)
    PROVE  QueueInv'
  <1> USE DEF QueueInv
  <1> DEFINE r == Settled(row[o], "processing")
             t == TriggerOf[o]
  <1>1. /\ row' = [row EXCEPT ![o] = r] /\ Status(o) = "stamped"
        /\ run' = [run EXCEPT ![o] = "live"]
        /\ UNCHANGED <<before, task, receipt>>
    BY DEF Accept, StartMeeting, TypeOK
  <1>2. r \in Row /\ r.status = "processing" /\ r.token = NoToken /\ r.lease = "none"
    BY SettledRecord DEF TypeOK, Statuses
  <1> HIDE DEF r
  <1>3. trigger' \in [Triggers -> Trigger]
    <2>1. CASE Accept(o)
      <3>1. Fired(t) \in Trigger
        <4> DEFINE last == trigger[t].limit > 0 /\ trigger[t].fires + 1 >= trigger[t].limit
                   b == trigger[t].enabled /\ ~last
        <4>1. b \in BOOLEAN
          OBVIOUS
        <4>2. Fired(t) = [[trigger[t] EXCEPT !.fires = trigger[t].fires + 1] EXCEPT !.enabled = b]
          <5>1. trigger[t] \in Trigger
            BY TriggerAssumption DEF TypeOK
          <5> QED
            BY <5>1 DEF Fired, Trigger
        <4> HIDE DEF b
        <4>3. trigger[t] \in Trigger
          BY TriggerAssumption DEF TypeOK
        <4>4. [[trigger[t] EXCEPT !.fires = trigger[t].fires + 1] EXCEPT !.enabled = b] \in Trigger
          BY ONLY <4>1, <4>3, TriggerRecord
        <4> QED
          BY <4>2, <4>4
      <3>2. trigger' = [trigger EXCEPT ![t] = Fired(t)]
        BY <2>1 DEF Accept
      <3> QED
        BY <3>1, <3>2, TriggerAssumption DEF TypeOK
    <2>2. CASE StartMeeting(o)
      <3>1. trigger' = [trigger EXCEPT ![t] = [trigger[t] EXCEPT !.fires = seen[o] + 1]]
        BY <2>2, TriggerAssumption DEF StartMeeting, TypeOK
      <3>2. trigger[t] \in Trigger /\ seen[o] + 1 \in Nat
        BY TriggerAssumption DEF TypeOK
      <3>3. [trigger[t] EXCEPT !.fires = seen[o] + 1] \in Trigger
        BY ONLY <3>2 DEF Trigger
      <3> QED
        BY <3>1, <3>3, TriggerAssumption DEF TypeOK
    <2> QED
      BY <2>1, <2>2
  <1>4. TypeOK'
    <2>1. seen' \in [Occurrences -> Nat]
      <3>1. seen \in [Occurrences -> Nat]
        BY DEF TypeOK
      <3>2. seen' = seen \/ seen' = [seen EXCEPT ![o] = 0]
        BY DEF Accept, StartMeeting
      <3> QED
        BY ONLY <3>1, <3>2
    <2>2. tally' \in [Triggers -> Tally]
      <3>1. PICK c \in BOOLEAN :
                tally' = [tally EXCEPT ![t] = [tally[t] EXCEPT !.runs = tally[t].runs \cup {o},
                                                               !.exact = c]]
        <4>1. tally[t] \in Tally /\ tally \in [Triggers -> Tally]
          BY TriggerAssumption DEF TypeOK
        <4>2. CASE Accept(o)
          <5>1. tally' = [tally EXCEPT ![t] = [tally[t] EXCEPT !.runs = tally[t].runs \cup {o}]]
            BY <4>2 DEF Accept
          <5>2. [tally[t] EXCEPT !.runs = tally[t].runs \cup {o}]
                = [tally[t] EXCEPT !.runs = tally[t].runs \cup {o}, !.exact = tally[t].exact]
            BY <4>1 DEF Tally
          <5>3. tally[t].exact \in BOOLEAN
            BY <4>1 DEF Tally
          <5> QED
            BY <5>1, <5>2, <5>3
        <4>3. CASE StartMeeting(o)
          <5> DEFINE c == tally[t].exact /\ seen[o] = trigger[t].fires
          <5>1. tally' = [tally EXCEPT ![t] = [tally[t] EXCEPT !.runs = tally[t].runs \cup {o},
                                                               !.exact = c]]
            BY <4>1, <4>3, TriggerAssumption DEF StartMeeting, Tally
          <5>2. c \in BOOLEAN
            OBVIOUS
          <5> HIDE DEF c
          <5> QED
            BY <5>1, <5>2
        <4> QED
          BY <4>2, <4>3
      <3>2. tally[t] \in Tally
        BY TriggerAssumption DEF TypeOK
      <3>3. [tally[t] EXCEPT !.runs = tally[t].runs \cup {o}, !.exact = c] \in Tally
        BY <3>2 DEF Tally
      <3> QED
        BY <3>1, <3>3 DEF TypeOK
    <2> QED
      BY <1>1, <1>2, <1>3, <2>1, <2>2 DEF TypeOK, RunStatuses
  <1>5. /\ row'[o] = r /\ \A e \in Occurrences \ {o} : row'[e] = row[e]
        /\ run'[o] = "live" /\ \A e \in Occurrences \ {o} : run'[e] = run[e]
        /\ o \notin receipt
    BY <1>1 DEF TypeOK, RowInv
  <1>6. RowInv'
    BY <1>1, <1>2, <1>5 DEF RowInv, Status
  <1>7. ProjectedRowIsFinal'
    BY <1>1, <1>5 DEF ProjectedRowIsFinal, Status, TypeOK
  <1>8. OneOwnerPerAgent'
    BY <1>2, <1>5 DEF OneOwnerPerAgent, SameAgent
  <1> QED
    BY <1>4, <1>6, <1>7, <1>8

\* The claim transaction: swept rows were unfinished, and the index lets no second
\* row of an Agent keep a token.
LEMMA ClaimStep == QueueInv /\ Claim => QueueInv'
  <1> SUFFICES ASSUME QueueInv, Claim PROVE QueueInv'
    OBVIOUS
  <1> USE DEF QueueInv
  <1>1. PICK B \in Batches :
        /\ ~IndexConflict(B)
        /\ \A o \in B : row[o].claims < MaxClaims
        /\ row' = [o \in Occurrences |->
                    IF o \in Swept THEN Settled(row[o], "failed")
                    ELSE IF o \in B THEN Claimed(row[o]) ELSE row[o]]
        /\ task' = [o \in Occurrences |->
                    IF o \in B THEN [task[o] EXCEPT ![row[o].claims + 1] = "claimed"]
                               ELSE task[o]]
    BY DEF Claim
  <1>2. UNCHANGED <<before, trigger, seen, tally, run, receipt>>
    BY DEF Claim
  <1>3. B \subseteq Unfinished /\ Unfinished \subseteq Occurrences /\ Unfinished \cap Swept = {}
    BY DEF Batches, Claimable, Unfinished
  <1>4. \A o \in Swept \cup Unfinished : o \in Occurrences /\ Status(o) = "processing"
    BY DEF Swept, Unfinished, Unleased
  <1>5. \A o \in B : row[o].claims + 1 \in Tokens
    BY <1>1, <1>3, TriggerAssumption DEF TypeOK, Row, Tokens
  <1>6. \A o \in B : /\ Claimed(row[o]) \in Row
                     /\ Claimed(row[o]).status = "processing"
    <2> SUFFICES ASSUME NEW o \in B
                 PROVE  Claimed(row[o]) \in Row /\ Claimed(row[o]).status = "processing"
      OBVIOUS
    <2>1. row[o].claims + 1 \in Tokens /\ row[o].claims + 1 \in 0..MaxClaims
      BY <1>5 DEF Tokens
    <2>2. row[o] \in Row /\ row[o].status = "processing"
      BY <1>3, <1>4 DEF TypeOK, Status
    <2> QED
      BY <2>1, <2>2 DEF Claimed, Row, Leases
  <1>7. \A o \in Swept : /\ Settled(row[o], "failed") \in Row
                         /\ Settled(row[o], "failed").status = "failed"
                         /\ Settled(row[o], "failed").token = NoToken
                         /\ Settled(row[o], "failed").lease = "none"
    BY <1>4, SettledRecord DEF TypeOK, Statuses
  <1>8. TypeOK'
    <2>1. row' \in [Occurrences -> Row]
      BY <1>1, <1>3, <1>6, <1>7 DEF TypeOK
    <2>2. task' \in [Occurrences -> [Tokens -> TaskPhases]]
      BY <1>1, <1>3, <1>5 DEF TypeOK, TaskPhases, ActivePhases
    <2> QED
      BY <1>2, <2>1, <2>2 DEF TypeOK
  <1>9. /\ \A o \in Swept : /\ row'[o].status = "failed" /\ row'[o].token = NoToken
                            /\ row'[o].lease = "none"
        /\ \A o \in B : row'[o].status = "processing"
        /\ \A o \in Occurrences \ (Swept \cup B) : row'[o] = row[o]
    BY <1>1, <1>3, <1>4, <1>6, <1>7
  <1>10. \A o \in Swept \cup B : o \in Occurrences /\ o \notin receipt
    BY <1>3, <1>4 DEF RowInv, ProjectedRowIsFinal
  <1>11. RowInv'
    BY <1>2, <1>3, <1>4, <1>9, <1>10 DEF RowInv, Status
  <1>12. ProjectedRowIsFinal'
    BY <1>2, <1>9, <1>10 DEF ProjectedRowIsFinal, Status, TypeOK
  <1>13. OneOwnerPerAgent'
    <2> SUFFICES ASSUME NEW o \in Occurrences, NEW e \in Occurrences, o # e, SameAgent(o, e),
                        row'[o].token # NoToken, row'[e].token # NoToken
                 PROVE  FALSE
      BY DEF OneOwnerPerAgent, SameAgent
    <2>1. ASSUME NEW p \in {o, e} PROVE p \in B \/ (p \in Unfinished /\ row[p].token # NoToken)
      <3>1. p \notin Swept
        BY <1>9
      <3>2. CASE p \notin B
        <4>1. row[p].token # NoToken
          BY <1>9, <3>1, <3>2
        <4> QED
          BY <3>1, <4>1 DEF RowInv, Unfinished
      <3> QED
        BY <3>2
    <2>2. CASE o \in B
      BY <1>1, <1>3, <2>1, <2>2 DEF IndexConflict, SameAgent
    <2>3. CASE e \in B
      BY <1>1, <1>3, <2>1, <2>3 DEF IndexConflict, SameAgent
    <2>4. CASE o \notin B /\ e \notin B
      BY <2>1, <2>4 DEF OneOwnerPerAgent
    <2> QED
      BY <2>2, <2>3, <2>4
  <1> QED
    BY <1>8, <1>11, <1>12, <1>13

\* A task's steps: messages, renewals and losses leave status and owner alone.
LEMMA TaskSteps ==
    ASSUME QueueInv, NEW o \in Occurrences, NEW g \in Tokens,
           TaskStep(o, g) \/ Renew(o, g) \/ Crash(o, g)
    PROVE  QueueInv'
  <1>1. CASE Check(o, g) \/ OpenSession(o, g) \/ Publish(o, g) \/ Crash(o, g)
    <2>1. UNCHANGED <<row, before, trigger, seen, tally, run, receipt>>
      BY <1>1 DEF Check, OpenSession, Publish, Crash
    <2>2. task' \in [Occurrences -> [Tokens -> TaskPhases]]
      <3>1. PICK phase \in {"checked", "opened", "answered", "done"} : Proceed(o, g, phase)
        BY <1>1 DEF Check, OpenSession, Publish, Crash
      <3>2. phase \in TaskPhases
        BY DEF TaskPhases, ActivePhases
      <3> QED
        BY <3>1, <3>2 DEF Proceed, QueueInv, TypeOK
    <2> QED
      BY <2>1, <2>2, RowsUntouched DEF QueueInv, TypeOK
  <1>2. CASE Complete(o, g)
    BY <1>2, MarkStep DEF Complete
  <1>3. CASE Fail(o, g)
    BY <1>3, MarkStep DEF Fail
  <1>4. CASE Renew(o, g)
    <2> DEFINE r == [row[o] EXCEPT !.lease = "live"]
    <2>1. /\ row' = [row EXCEPT ![o] = r] /\ Status(o) = "processing"
          /\ UNCHANGED <<before, trigger, seen, tally, task, run, receipt>>
      BY <1>4 DEF Renew, Fence
    <2>2. r \in Row /\ r.status = row[o].status /\ r.token = row[o].token
      BY DEF QueueInv, TypeOK, Row, Leases
    <2> HIDE DEF r
    <2>3. row' \in [Occurrences -> Row] /\ RowInv' /\ ProjectedRowIsFinal' /\ OneOwnerPerAgent'
      BY <2>1, <2>2, OneRowChanges DEF Status
    <2> QED
      BY <2>1, <2>3 DEF QueueInv, TypeOK
  <1> QED
    BY <1>1, <1>2, <1>3, <1>4 DEF TaskStep

\* A lease that runs out keeps the row's owner.
LEMMA ExpireStep ==
    ASSUME QueueInv, NEW o \in Occurrences, Expire(o) PROVE QueueInv'
  <1> DEFINE r == [row[o] EXCEPT !.lease = "expired"]
  <1>1. /\ row' = [row EXCEPT ![o] = r]
        /\ UNCHANGED <<before, trigger, seen, tally, task, run, receipt>>
    BY DEF Expire
  <1>0. row[o].lease # "none"
    BY DEF Expire
  <1>2. /\ r \in Row /\ r.status = row[o].status /\ r.token = row[o].token
    BY DEF QueueInv, TypeOK, Row, Leases
  <1> HIDE DEF r
  <1>3. row'[o] = r /\ \A e \in Occurrences \ {o} : row'[e] = row[e]
    BY <1>1 DEF QueueInv, TypeOK
  <1>4. \A e \in Occurrences :
            /\ row'[e].status = row[e].status /\ row'[e].token = row[e].token
            /\ row'[e].lease # "none" => row[e].lease # "none"
    BY <1>0, <1>2, <1>3
  <1>5. TypeOK'
    BY <1>1, <1>2 DEF QueueInv, TypeOK
  <1> QED
    BY <1>1, <1>4, <1>5 DEF QueueInv, RowInv, ProjectedRowIsFinal, OneOwnerPerAgent,
                            Status, SameAgent, TypeOK

\* The Run ends; the projection writes its outcome over whatever the row says.
LEMMA RuntimeSteps ==
    ASSUME QueueInv, NEW o \in Occurrences, RuntimeStep(o) PROVE QueueInv'
  <1> USE DEF QueueInv
  <1>1. ASSUME NEW s \in {"aborted", "completed", "failed"}, run[o] = "live",
               run' = [run EXCEPT ![o] = s],
               UNCHANGED <<row, before, trigger, seen, tally, task, receipt>>
        PROVE  QueueInv'
    <2>1. /\ run' = [run EXCEPT ![o] = s] /\ run[o] = "live"
          /\ UNCHANGED <<row, before, trigger, seen, tally, task, receipt>>
      BY <1>1
    <2>2. /\ run'[o] = s /\ \A e \in Occurrences \ {o} : run'[e] = run[e]
          /\ o \notin receipt
      BY <2>1 DEF TypeOK, RowInv
    <2>3. TypeOK'
      BY <2>1 DEF TypeOK, RunStatuses
    <2> QED
      BY <2>1, <2>2, <2>3 DEF RowInv, ProjectedRowIsFinal, OneOwnerPerAgent,
                              Status, SameAgent, TypeOK
  <1>2. CASE ProjectTerminal(o)
    <2> DEFINE r == Settled(row[o], run[o])
    <2>1. /\ row' = [row EXCEPT ![o] = r] /\ run[o] \in {"completed", "failed"}
          /\ receipt' = receipt \cup {o}
          /\ UNCHANGED <<before, trigger, seen, tally, task, run>>
      BY <1>2 DEF ProjectTerminal, TypeOK
    <2>2. r \in Row /\ r.status = run[o] /\ r.token = NoToken /\ r.lease = "none"
      BY <2>1, SettledRecord DEF TypeOK, Statuses
    <2> HIDE DEF r
    <2>3. row'[o] = r /\ \A e \in Occurrences \ {o} : row'[e] = row[e]
      BY <2>1 DEF TypeOK
    <2>4. TypeOK'
      BY <2>1, <2>2 DEF TypeOK
    <2>5. RowInv'
      BY <2>1, <2>2, <2>3 DEF RowInv, Status
    <2>6. ProjectedRowIsFinal'
      BY <2>1, <2>2, <2>3 DEF ProjectedRowIsFinal, Status, TypeOK
    <2>7. OneOwnerPerAgent'
      BY <2>2, <2>3 DEF OneOwnerPerAgent, SameAgent
    <2> QED
      BY <2>4, <2>5, <2>6, <2>7
  <1> QED
    BY <1>1, <1>2 DEF RuntimeStep, RunEnds, RunAborts

\* Every step keeps the invariant.
LEMMA QueueStep == QueueInv /\ [Next]_vars => QueueInv'
  <1> SUFFICES ASSUME QueueInv, [Next]_vars PROVE QueueInv'
    OBVIOUS
  <1>1. ASSUME NEW o \in Occurrences, Registration(o) PROVE QueueInv'
    BY <1>1, CallStep, StampStep, RefusalStep, AcceptStep DEF Registration
  <1>2. ASSUME NEW t \in Triggers, Owner(t) PROVE QueueInv'
    <2>1. UNCHANGED <<row, before, seen, task, run, receipt>>
      BY <1>2 DEF Owner, SetEnabled, SetLimit, Rearm
    <2>2. trigger[t] \in Trigger /\ trigger \in [Triggers -> Trigger] /\ tally \in [Triggers -> Tally]
      BY DEF QueueInv, TypeOK
    <2>3. trigger' \in [Triggers -> Trigger]
      <3>1. CASE \E b \in BOOLEAN : SetEnabled(t, b)
        <4>1. PICK b \in BOOLEAN : trigger' = [trigger EXCEPT ![t] = [trigger[t] EXCEPT !.enabled = b]]
          BY <3>1 DEF SetEnabled
        <4>2. [trigger[t] EXCEPT !.enabled = b] \in Trigger
          BY <2>2 DEF Trigger
        <4> QED
          BY <2>2, <4>1, <4>2
      <3>2. CASE \E n \in Limits : SetLimit(t, n)
        <4>1. PICK n \in Limits : trigger' = [trigger EXCEPT ![t] = [trigger[t] EXCEPT !.limit = n]]
          BY <3>2 DEF SetLimit
        <4>2. [trigger[t] EXCEPT !.limit = n] \in Trigger
          BY <2>2 DEF Trigger
        <4> QED
          BY <2>2, <4>1, <4>2
      <3>3. CASE Rearm(t)
        <4>1. trigger' = [trigger EXCEPT ![t] = [trigger[t] EXCEPT !.fires = 0, !.enabled = TRUE]]
          BY <2>2, <3>3 DEF Rearm
        <4>2. [trigger[t] EXCEPT !.fires = 0, !.enabled = TRUE] \in Trigger
          BY <2>2 DEF Trigger
        <4> QED
          BY <2>2, <4>1, <4>2
      <3> QED
        BY <1>2, <3>1, <3>2, <3>3 DEF Owner
    <2>4. tally' \in [Triggers -> Tally]
      <3>1. [runs |-> {}, exact |-> TRUE] \in Tally
        BY DEF Tally
      <3> QED
        BY <1>2, <2>2, <3>1 DEF Owner, SetEnabled, SetLimit, Rearm
    <2> QED
      BY <2>1, <2>3, <2>4, RowsUntouched DEF QueueInv, TypeOK
  <1>3. CASE UNCHANGED vars
    BY <1>3, RowsUntouched DEF vars, QueueInv, TypeOK
  <1> QED
    BY <1>1, <1>2, <1>3, RuntimeSteps, ExpireStep, TaskSteps, ClaimStep DEF Next

\* The tables keep their types; a claim's number stays within the claims made.
THEOREM QueueTypeCorrect == Spec => []TypeOK
  <1>1. QueueInv => TypeOK
    BY DEF QueueInv
  <1> QED
    BY QueueInit, QueueStep, <1>1, PTL DEF Spec

\* After the projection of a terminal checkpoint (trigger_completion.py) the row
\* shows the Run's outcome, for any number of daemon tasks and reclaims.
THEOREM QueueProjectedRowIsFinal == Spec => []ProjectedRowIsFinal
  <1>1. QueueInv => ProjectedRowIsFinal
    BY DEF QueueInv
  <1> QED
    BY QueueInit, QueueStep, <1>1, PTL DEF Spec

\* The partial unique index and the claim transaction together leave an Agent at
\* most one owned row (claim_pending_trigger_executions).
THEOREM QueueOneOwnerPerAgent == Spec => []OneOwnerPerAgent
  <1>1. QueueInv => OneOwnerPerAgent
    BY DEF QueueInv
  <1> QED
    BY QueueInit, QueueStep, <1>1, PTL DEF Spec

\* A settled row is changed by a projection only: the fence (_claim_fence) keeps
\* every task that lost its claim away from it.
THEOREM QueueSettledRow == Spec => SettledRowIsRevisedByRuntimeOnly
  <1> DEFINE Kept == \A o \in Occurrences :
                        Status(o) \in {"completed", "failed"} /\ row'[o] # row[o]
                        => o \in receipt' \ receipt
  <1>1. QueueInv /\ [Next]_vars => Kept
    <2> SUFFICES ASSUME QueueInv, [Next]_vars, NEW o \in Occurrences,
                        Status(o) \in {"completed", "failed"}, row'[o] # row[o]
                 PROVE  o \in receipt' \ receipt
      OBVIOUS
    <2> USE DEF QueueInv, Status
    <2>1. ASSUME NEW e \in Occurrences, Registration(e) PROVE FALSE
      BY <2>1 DEF Registration, CallMeeting, Stamp, Refuse, Accept, Reject, StartMeeting, TypeOK
    <2>2. ASSUME NEW e \in Occurrences, RuntimeStep(e) PROVE o \in receipt' \ receipt
      BY <2>2 DEF RuntimeStep, RunEnds, RunAborts, ProjectTerminal, TypeOK
    <2>3. ASSUME NEW e \in Occurrences, Expire(e) PROVE FALSE
      <3>1. row[o].lease = "none"
        BY DEF RowInv
      <3>2. o = e
        BY <2>3 DEF Expire, TypeOK
      <3> QED
        BY <2>3, <3>1, <3>2 DEF Expire
    <2>4. ASSUME NEW e \in Occurrences, NEW g \in Tokens,
                 TaskStep(e, g) \/ Renew(e, g) \/ Crash(e, g)
          PROVE  FALSE
      BY <2>4 DEF TaskStep, Renew, Crash, Check, OpenSession, Publish, Complete, Fail, Mark, Fence,
                  TypeOK
    <2>5. CASE Claim
      <3>1. o \notin Swept /\ o \notin Claimable
        BY DEF Swept, Claimable, Unfinished, Unleased
      <3> QED
        BY <2>5, <3>1 DEF Claim, Batches
    <2>6. ASSUME NEW t \in Triggers, Owner(t) PROVE FALSE
      BY <2>6 DEF Owner, SetEnabled, SetLimit, Rearm
    <2>7. CASE UNCHANGED vars
      BY <2>7 DEF vars
    <2> QED
      BY <2>1, <2>2, <2>3, <2>4, <2>5, <2>6, <2>7 DEF Next
  <1> QED
    BY QueueInit, QueueStep, <1>1, PTL DEF Spec, SettledRowIsRevisedByRuntimeOnly

\* No answer is committed or delivered for an occurrence after its projection:
\* these commits are behind the locking validate_active_trigger_principal.
THEOREM QueueNoAnswerAfterProjection == Spec => NoAnswerAfterProjection
  <1> DEFINE Quiet == \A o \in Occurrences, g \in Tokens :
                        task[o][g] # "answered" /\ task'[o][g] = "answered" => o \notin receipt
  <1>1. QueueInv /\ [Next]_vars => Quiet
    <2> SUFFICES ASSUME QueueInv, [Next]_vars, NEW o \in Occurrences, NEW g \in Tokens,
                        task[o][g] # "answered", task'[o][g] = "answered"
                 PROVE  o \notin receipt
      OBVIOUS
    <2> USE DEF QueueInv
    <2>1. task' # task
      OBVIOUS
    <2>2. ~Claim
      <3> SUFFICES ASSUME Claim PROVE FALSE
        OBVIOUS
      <3>1. task'[o] = task[o] \/ task'[o] = [task[o] EXCEPT ![row[o].claims + 1] = "claimed"]
        BY DEF Claim
      <3>2. task[o] \in [Tokens -> TaskPhases]
        BY DEF TypeOK
      <3> QED
        BY <3>1, <3>2
    <2>3. PICK e \in Occurrences, h \in Tokens : TaskStep(e, h) \/ Crash(e, h)
      BY <2>1, <2>2 DEF Next, vars, Registration, CallMeeting, Stamp, Refuse, Accept, Reject,
             StartMeeting, RuntimeStep, RunEnds, RunAborts, ProjectTerminal, Expire, Renew,
             Owner, SetEnabled, SetLimit, Rearm
    <2>4. PICK phase : Proceed(e, h, phase) /\ (phase = "answered" => Publish(e, h))
      BY <2>3 DEF TaskStep, Crash, Check, OpenSession, Publish, Complete, Fail
    <2>5. task \in [Occurrences -> [Tokens -> TaskPhases]]
      BY DEF TypeOK
    <2>6. o = e /\ g = h /\ phase = "answered"
      BY <2>4, <2>5 DEF Proceed
    <2>7. Status(o) = "processing"
      BY <2>4, <2>6 DEF Publish, Authorized, Fence
    <2> QED
      BY <2>7 DEF RowInv, ProjectedRowIsFinal
  <1> QED
    BY QueueInit, QueueStep, <1>1, PTL DEF Spec, NoAnswerAfterProjection

\* The Runs of a tally are registered ones, and fire_count is their number until a
\* meeting overwrites a count it had not loaded.
TallyInv ==
    \A t \in Triggers :
        /\ \A o \in tally[t].runs : run[o] # "none"
        /\ tally[t].exact => trigger[t].fires = Cardinality(tally[t].runs)

\* A tally holds finitely many Runs.
LEMMA TallyIsFinite ==
    ASSUME TypeOK, NEW t \in Triggers
    PROVE  /\ tally[t].runs \subseteq Occurrences
           /\ IsFiniteSet(tally[t].runs) /\ Cardinality(tally[t].runs) \in Nat
  <1>1. tally[t].runs \subseteq Occurrences
    BY DEF TypeOK, Tally
  <1>2. IsFiniteSet(tally[t].runs)
    BY <1>1, FS_Subset, TriggerAssumption
  <1> QED
    BY <1>1, <1>2, FS_CardinalityType

\* A step that registers nothing and counts nothing.
LEMMA NothingFires ==
    ASSUME TypeOK, TallyInv, tally' = tally,
           \A t \in Triggers : trigger'[t].fires = trigger[t].fires,
           \A o \in Occurrences : run[o] # "none" => run'[o] # "none"
    PROVE  TallyInv'
  <1>1. \A t \in Triggers : tally[t].runs \subseteq Occurrences
    BY TallyIsFinite
  <1> QED
    BY <1>1 DEF TallyInv

\* A registration adds one Run; the fire it counts is the next one, unless a meeting
\* counts from a value that is no longer stored.
LEMMA RegistrationFires ==
    ASSUME QueueInv, TallyInv, NEW o \in Occurrences, Accept(o) \/ StartMeeting(o)
    PROVE  TallyInv'
  <1> USE TriggerAssumption DEF QueueInv
  <1> DEFINE t == TriggerOf[o]
             T == tally[t].runs
  <1>1. run' = [run EXCEPT ![o] = "live"] /\ run[o] = "none"
    BY DEF Accept, StartMeeting, TypeOK, RowInv
  <1>2. /\ t \in Triggers /\ trigger[t] \in Trigger /\ tally[t] \in Tally
        /\ trigger \in [Triggers -> Trigger] /\ tally \in [Triggers -> Tally]
    BY DEF TypeOK
  <1>3. \A u \in Triggers \ {t} : trigger'[u] = trigger[u] /\ tally'[u] = tally[u]
    BY <1>2 DEF Accept, StartMeeting
  <1>4. /\ tally'[t].runs = T \cup {o}
        /\ tally'[t].exact => tally[t].exact /\ trigger'[t].fires = trigger[t].fires + 1
    <2>1. CASE Accept(o)
      <3>1. /\ trigger' = [trigger EXCEPT ![t] = Fired(t)]
            /\ tally' = [tally EXCEPT ![t] = [tally[t] EXCEPT !.runs = T \cup {o}]]
        BY <2>1 DEF Accept
      <3>2. Fired(t).fires = trigger[t].fires + 1
        BY <1>2 DEF Fired, Trigger
      <3>3. /\ [tally[t] EXCEPT !.runs = T \cup {o}].runs = T \cup {o}
            /\ [tally[t] EXCEPT !.runs = T \cup {o}].exact = tally[t].exact
        BY <1>2 DEF Tally
      <3> QED
        BY <1>2, <3>1, <3>2, <3>3
    <2>2. CASE StartMeeting(o)
      <3>1. /\ trigger'[t].fires = seen[o] + 1
            /\ tally'[t].runs = T \cup {o}
            /\ tally'[t].exact = (tally[t].exact /\ seen[o] = trigger[t].fires)
        BY <1>2, <2>2 DEF StartMeeting, Trigger, Tally
      <3> QED
        BY <3>1
    <2> QED
      BY <2>1, <2>2
  <1>5. o \notin T /\ IsFiniteSet(T)
    BY <1>1, <1>2, TallyIsFinite DEF TallyInv
  <1>6. Cardinality(T \cup {o}) = Cardinality(T) + 1
    BY <1>5, FS_AddElement
  <1>7. \A e \in Occurrences : run[e] # "none" \/ e = o => run'[e] # "none"
    BY <1>1 DEF TypeOK
  <1>8. \A u \in Triggers : tally[u].runs \subseteq Occurrences
    BY TallyIsFinite
  <1>9. \A e \in tally'[t].runs : run'[e] # "none"
    BY <1>2, <1>4, <1>7, <1>8 DEF TallyInv
  <1>10. tally'[t].exact => trigger'[t].fires = Cardinality(tally'[t].runs)
    BY <1>2, <1>4, <1>6 DEF TallyInv
  <1>11. ASSUME NEW u \in Triggers \ {t}
         PROVE  /\ \A e \in tally'[u].runs : run'[e] # "none"
                /\ tally'[u].exact => trigger'[u].fires = Cardinality(tally'[u].runs)
    BY <1>3, <1>7, <1>8 DEF TallyInv
  <1> QED
    BY <1>9, <1>10, <1>11 DEF TallyInv

\* What an owner changes: the limit and is_enabled leave the count alone, and a
\* re-armed Trigger counts from 0 with no Run behind it.
LEMMA OwnerKeepsTally ==
    ASSUME QueueInv, TallyInv, NEW t \in Triggers, Owner(t) PROVE TallyInv'
  <1> USE DEF QueueInv
  <1>1. trigger \in [Triggers -> Trigger] /\ tally \in [Triggers -> Tally]
    BY DEF TypeOK
  <1>2. CASE (\E b \in BOOLEAN : SetEnabled(t, b)) \/ (\E n \in Limits : SetLimit(t, n))
    <2>1. tally' = tally /\ run' = run
      BY <1>2 DEF SetEnabled, SetLimit
    <2>2. \A u \in Triggers : trigger'[u].fires = trigger[u].fires
      BY <1>1, <1>2 DEF SetEnabled, SetLimit, Trigger
    <2> QED
      BY <2>1, <2>2, NothingFires
  <1>3. CASE Rearm(t)
    <2>1. /\ trigger'[t].fires = 0 /\ tally'[t].runs = {} /\ run' = run
          /\ \A u \in Triggers \ {t} : trigger'[u] = trigger[u] /\ tally'[u] = tally[u]
      BY <1>1, <1>3 DEF Rearm, Trigger
    <2>2. Cardinality({}) = 0
      BY FS_EmptySet
    <2> QED
      BY <2>1, <2>2 DEF TallyInv
  <1> QED
    BY <1>2, <1>3 DEF Owner

\* Every step keeps the tallies.
LEMMA TallyStep == QueueInv /\ TallyInv /\ [Next]_vars => TallyInv'
  <1> SUFFICES ASSUME QueueInv, TallyInv, [Next]_vars PROVE TallyInv'
    OBVIOUS
  <1> USE DEF QueueInv
  <1>0. trigger \in [Triggers -> Trigger]
    BY DEF TypeOK
  <1>1. ASSUME NEW o \in Occurrences, Registration(o) PROVE TallyInv'
    <2>1. CASE CallMeeting(o) \/ Stamp(o) \/ Reject(o)
      <3>1. UNCHANGED <<trigger, tally, run>>
        BY <2>1 DEF CallMeeting, Stamp, Reject
      <3> QED
        BY <3>1, NothingFires
    <2>2. CASE Refuse(o)
      <3>1. UNCHANGED <<tally, run>>
        BY <2>2 DEF Refuse
      <3>2. \A t \in Triggers : trigger'[t].fires = trigger[t].fires
        BY <1>0, <2>2 DEF Refuse, Trigger
      <3> QED
        BY <3>1, <3>2, NothingFires
    <2> QED
      BY <1>1, <2>1, <2>2, RegistrationFires DEF Registration
  <1>2. ASSUME NEW o \in Occurrences, RuntimeStep(o) PROVE TallyInv'
    <2>1. /\ UNCHANGED <<trigger, tally>>
          /\ \A e \in Occurrences : run[e] # "none" => run'[e] # "none"
      BY <1>2 DEF RuntimeStep, RunEnds, RunAborts, ProjectTerminal, TypeOK
    <2> QED
      BY <2>1, NothingFires
  <1>3. CASE Claim \/ \E o \in Occurrences : Expire(o)
    <2>1. UNCHANGED <<trigger, tally, run>>
      BY <1>3 DEF Claim, Expire
    <2> QED
      BY <2>1, NothingFires
  <1>4. ASSUME NEW o \in Occurrences, NEW g \in Tokens,
               TaskStep(o, g) \/ Renew(o, g) \/ Crash(o, g)
        PROVE  TallyInv'
    <2>1. UNCHANGED <<tally, run>>
      BY <1>4 DEF TaskStep, Check, OpenSession, Publish, Complete, Fail, Renew, Crash
    <2>2. trigger' = trigger \/ \E s : Mark(o, g, s)
      BY <1>4 DEF TaskStep, Check, OpenSession, Publish, Complete, Fail, Renew, Crash
    <2>3. ASSUME NEW s, Mark(o, g, s)
          PROVE  \A t \in Triggers : trigger'[t].fires = trigger[t].fires
      <3>1. CASE Fence(o, g)
        <4>1. PICK b : trigger' = [trigger EXCEPT ![TriggerOf[o]] =
                                     [trigger[TriggerOf[o]] EXCEPT !.enabled = b]]
          BY <2>3, <3>1 DEF Mark, DisabledAtCapacity
        <4> QED
          BY <1>0, <4>1 DEF Trigger
      <3>2. CASE ~Fence(o, g)
        BY <2>3, <3>2 DEF Mark
      <3> QED
        BY <3>1, <3>2
    <2> QED
      BY <2>1, <2>2, <2>3, NothingFires
  <1>5. CASE UNCHANGED vars
    BY <1>5, NothingFires DEF vars
  <1> QED
    BY <1>1, <1>2, <1>3, <1>4, <1>5, OwnerKeepsTally DEF Next

\* max_fires bounds the Runs that due occurrences start after each re-arming, for
\* any number of occurrences, changes of the limit and meetings that do not
\* overwrite a fire (queue.py against ceo_orchestrator.py).
THEOREM QueueDueRunsKeepLimit == Spec => DueRunsKeepLimit
  <1> DEFINE Within == \A o \in Occurrences :
                LET t == TriggerOf[o] IN
                /\ run[o] = "none" /\ run'[o] # "none" /\ ~row[o].manual
                /\ trigger[t].limit > 0
                /\ tally[t].exact
                => Cardinality(tally[t].runs) < trigger[t].limit
  <1>1. Init => TallyInv
    <2> SUFFICES ASSUME Init PROVE TallyInv
      OBVIOUS
    <2>1. \A t \in Triggers : tally[t].runs = {} /\ trigger[t].fires = 0
      BY DEF Init
    <2>2. Cardinality({}) = 0
      BY FS_EmptySet
    <2> QED
      BY <2>1, <2>2 DEF TallyInv
  <1>2. QueueInv /\ TallyInv /\ [Next]_vars => Within
    <2> SUFFICES ASSUME QueueInv, TallyInv, [Next]_vars, NEW o \in Occurrences,
                        run[o] = "none", run'[o] # "none", ~row[o].manual,
                        trigger[TriggerOf[o]].limit > 0, tally[TriggerOf[o]].exact
                 PROVE  Cardinality(tally[TriggerOf[o]].runs) < trigger[TriggerOf[o]].limit
      OBVIOUS
    <2> USE DEF QueueInv
    <2> DEFINE t == TriggerOf[o]
    <2>1. \E e \in Occurrences : Accept(e) \/ StartMeeting(e) \/ RuntimeStep(e)
      BY DEF Next, vars, Registration, CallMeeting, Stamp, Refuse, Reject, Expire, TaskStep,
             Renew, Crash, Check, OpenSession, Publish, Complete, Fail, Owner, SetEnabled,
             SetLimit, Rearm, Claim
    <2>2. Accept(o)
      BY <2>1 DEF Accept, StartMeeting, RuntimeStep, RunEnds, RunAborts, ProjectTerminal, TypeOK
    <2>3. ~AtCapacity(t) /\ t \in Triggers
      BY <2>2, TriggerAssumption DEF Accept
    <2>4. trigger[t].fires \in Nat /\ trigger[t].limit \in Nat
      <3>1. trigger[t] \in Trigger
        BY <2>3 DEF TypeOK
      <3> QED
        BY <3>1, TriggerAssumption DEF Trigger
    <2>5. trigger[t].fires = Cardinality(tally[t].runs)
      BY <2>3 DEF TallyInv
    <2> QED
      BY <2>3, <2>4, <2>5 DEF AtCapacity
  <1> QED
    BY QueueInit, QueueStep, TallyStep, <1>1, <1>2, PTL DEF Spec, DueRunsKeepLimit
=============================================================================

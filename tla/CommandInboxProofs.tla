-------------------------- MODULE CommandInboxProofs --------------------------
(***************************************************************************)
(* The Command Inbox, proved for every set of Commands, Runs, lanes and    *)
(* worker processes and every attempt limit.                               *)
(***************************************************************************)
EXTENDS CommandInbox, TLAPS

\* The initial tables are empty and typed.
LEMMA InboxInitTypeOK == InboxInit => InboxTypeOK
  <1> SUFFICES ASSUME InboxInit PROVE InboxTypeOK
    OBVIOUS
  <1>1. AbsentRow \in CommandRow
    BY WorkersAssumption DEF AbsentRow, CommandRow, ErrorCodes
  <1> QED
    BY <1>1 DEF InboxInit, InboxTypeOK

\* Every transaction writes rows of the declared types.
LEMMA InboxStepTypeOK == InboxTypeOK /\ [InboxNext]_inboxVars => InboxTypeOK'
  <1> SUFFICES ASSUME InboxTypeOK, [InboxNext]_inboxVars PROVE InboxTypeOK'
    OBVIOUS
  <1> USE CommandsAssumption, WorkersAssumption
  <1> USE DEF InboxTypeOK, CommandRow, ErrorCodes
  <1>1. ASSUME NEW c \in Commands, RegisterRunWithStart(c) \/ EnqueueCommand(c)
        PROVE InboxTypeOK'
    <2> DEFINE row == [cmd[c] EXCEPT !.status = "pending"]
    <2>1. row \in CommandRow
      OBVIOUS
    <2>2. cmd' = [cmd EXCEPT ![c] = row] /\ laneHeld' = laneHeld
      BY <1>1 DEF RegisterRunWithStart, EnqueueCommand
    <2> HIDE DEF row, CommandRow
    <2> QED
      BY <2>1, <2>2
  <1>2. ASSUME NEW c \in Commands, NEW w \in Claimants, ClaimNextCommand(c, w)
        PROVE InboxTypeOK'
    <2> DEFINE row == [cmd[c] EXCEPT !.status = "claimed", !.claimant = w,
                           !.live = TRUE, !.error = "none"]
    <2>1. cmd' \in [Commands -> CommandRow]
      <3>1. row \in CommandRow
        OBVIOUS
      <3>2. cmd' = [cmd EXCEPT ![c] = row]
        BY <1>2 DEF ClaimNextCommand
      <3> QED
        BY <3>1, <3>2
    <2>2. CASE AcquiresLane(c)
      <3>1. laneHeld' = [laneHeld EXCEPT ![RunOf[c]] = TRUE]
        BY <1>2, <2>2 DEF ClaimNextCommand
      <3> QED
        BY <2>1, <3>1
    <2>3. CASE ~AcquiresLane(c)
      <3>1. laneHeld' = laneHeld
        BY <1>2, <2>3 DEF ClaimNextCommand
      <3> QED
        BY <2>1, <3>1
    <2> QED
      BY <2>2, <2>3
  <1>3. ASSUME NEW c \in Commands, ExpireClaim(c) PROVE InboxTypeOK'
    <2> DEFINE row == [cmd[c] EXCEPT !.live = FALSE]
    <2>1. row \in CommandRow
      OBVIOUS
    <2>2. cmd' = [cmd EXCEPT ![c] = row] /\ laneHeld' = laneHeld
      BY <1>3 DEF ExpireClaim
    <2> HIDE DEF row, CommandRow
    <2> QED
      BY <2>1, <2>2
  <1>4. ASSUME NEW c \in Commands, NEW w \in Claimants, ClaimantTransaction(c, w)
        PROVE InboxTypeOK'
    <2>1. CASE RenewCommandClaim(c, w)
      <3> DEFINE row == [cmd[c] EXCEPT !.live = TRUE]
      <3>1. row \in CommandRow
        OBVIOUS
      <3>2. cmd' = [cmd EXCEPT ![c] = row] /\ laneHeld' = laneHeld
        BY <2>1 DEF RenewCommandClaim
      <3> HIDE DEF row, CommandRow
      <3> QED
        BY <3>1, <3>2
    <2>2. CASE BeginCommandAttempt(c, w)
      BY <2>2 DEF BeginCommandAttempt
    <2>3. ASSUME NEW ckpt \in Checkpoints \cup {NoCheckpoint}, MarkCommandApplied(c, w, ckpt)
          PROVE InboxTypeOK'
      BY <2>3 DEF MarkCommandApplied
    <2>4. ASSUME NEW code \in RejectionCodes, MarkCommandRejected(c, w, code)
          PROVE InboxTypeOK'
      BY <2>4 DEF MarkCommandRejected
    <2>5. CASE ReleaseCommandClaim(c, w)
      <3> DEFINE row == [cmd[c] EXCEPT !.status = "pending", !.claimant = NoClaimant,
                             !.live = FALSE, !.checkpoint = NoCheckpoint, !.error = "retry"]
      <3>1. row \in CommandRow
        OBVIOUS
      <3>2. cmd' = [cmd EXCEPT ![c] = row] /\ laneHeld' = laneHeld
        BY <2>5 DEF ReleaseCommandClaim
      <3> QED
        BY <3>1, <3>2
    <2>6. CASE DeferWithoutAttempt(c, w)
      <3> DEFINE row == [cmd[c] EXCEPT !.status = "pending", !.claimant = NoClaimant,
                             !.live = FALSE, !.checkpoint = NoCheckpoint,
                             !.error = "retry", !.attempts = @ - 1]
      <3>1. cmd[c].attempts - 1 \in 0..MaxAttempts
        BY <2>6 DEF DeferWithoutAttempt
      <3>2. row \in CommandRow
        BY <3>1
      <3>3. cmd' = [cmd EXCEPT ![c] = row] /\ laneHeld' = laneHeld
        BY <2>6 DEF DeferWithoutAttempt
      <3> QED
        BY <3>2, <3>3
    <2> QED
      BY <1>4, <2>1, <2>2, <2>3, <2>4, <2>5, <2>6 DEF ClaimantTransaction
  <1>5. ASSUME NEW c \in Commands, RejectUnstartedRunForCancel(c) PROVE InboxTypeOK'
    <2> DEFINE row(p) == [cmd[p] EXCEPT !.status = "rejected", !.claimant = NoClaimant,
                              !.live = FALSE, !.checkpoint = NoCheckpoint,
                              !.error = "cancelled_before_start"]
    <2>1. ASSUME NEW p \in Commands PROVE row(p) \in CommandRow
      <3>1. cmd[p] \in CommandRow
        OBVIOUS
      <3>2. "cancelled_before_start" \in ErrorCodes
        BY DEF RejectionCodes
      <3> HIDE DEF InboxTypeOK
      <3> QED
        BY <3>1, <3>2
    <2>2. cmd' \in [Commands -> CommandRow]
      <3>1. cmd' = [p \in Commands |-> IF p \in UnstartedStarts(c) THEN row(p) ELSE cmd[p]]
        BY <1>5 DEF RejectUnstartedRunForCancel
      <3> HIDE DEF row
      <3> QED
        BY <2>1, <3>1
    <2> QED
      BY <1>5, <2>2 DEF RejectUnstartedRunForCancel
  <1>6. ASSUME NEW c \in Commands, MarkCommandProductSynced(c) PROVE InboxTypeOK'
    BY <1>6 DEF MarkCommandProductSynced
  <1>7. ASSUME NEW r \in Runs, ReleaseLane(r) PROVE InboxTypeOK'
    BY <1>7 DEF ReleaseLane
  <1>8. CASE ReleaseRejectedStartLanes
    BY <1>8 DEF ReleaseRejectedStartLanes
  <1>9. CASE UNCHANGED inboxVars
    BY <1>9 DEF inboxVars
  <1> QED
    BY <1>1, <1>2, <1>3, <1>4, <1>5, <1>6, <1>7, <1>8, <1>9 DEF InboxNext

\* Whatever the callers do, attempts stay within the limit and the rows within
\* their types (persistence.py).
THEOREM InboxTypeCorrect == InboxSpec => []InboxTypeOK
  <1>1. InboxInit => InboxTypeOK
    BY InboxInitTypeOK
  <1>2. InboxTypeOK /\ [InboxNext]_inboxVars => InboxTypeOK'
    BY InboxStepTypeOK
  <1> QED
    BY <1>1, <1>2, PTL DEF InboxSpec
-----------------------------------------------------------------------------
(***************************************************************************)
(* Lanes.  LaneExclusive is inductive together with the types: a lane is   *)
(* taken only by ClaimNextCommand, whose LaneAdmits guard looks at every   *)
(* other holder in the same transaction.                                   *)
(***************************************************************************)

\* No transaction gives a lane a second holder.
LEMMA LaneExclusiveStep ==
    InboxTypeOK /\ LaneExclusive /\ [InboxNext]_inboxVars => LaneExclusive'
  <1> SUFFICES ASSUME InboxTypeOK, LaneExclusive, [InboxNext]_inboxVars
               PROVE LaneExclusive'
    OBVIOUS
  <1> USE CommandsAssumption
  <1>1. ASSUME \A r \in Runs : laneHeld'[r] => laneHeld[r]
        PROVE LaneExclusive'
    BY <1>1 DEF LaneExclusive
  <1>2. ASSUME UNCHANGED laneHeld PROVE LaneExclusive'
    BY <1>1, <1>2
  <1>3. ASSUME NEW c \in Commands, NEW w \in Claimants, ClaimNextCommand(c, w)
        PROVE LaneExclusive'
    <2>1. CASE AcquiresLane(c)
      <3> DEFINE r == RunOf[c]
      <3>1. laneHeld' = [laneHeld EXCEPT ![r] = TRUE]
        BY <1>3, <2>1 DEF ClaimNextCommand
      <3>2. laneHeld[r] \/ ~ActiveLaneHolder(r)
        BY <1>3, <2>1 DEF ClaimNextCommand, Claimable, LaneAdmits, AcquiresLane
      <3>3. CASE laneHeld[r]
        BY <1>1, <3>1, <3>3 DEF InboxTypeOK
      <3>4. CASE ~ActiveLaneHolder(r)
        <4>1. \A q \in Runs \ {r} : LaneOf[q] = LaneOf[r] => ~laneHeld[q]
          BY <3>4 DEF ActiveLaneHolder
        <4>2. \A q \in Runs : laneHeld'[q] => q = r \/ laneHeld[q]
          BY <3>1 DEF InboxTypeOK
        <4> QED
          BY <4>1, <4>2 DEF LaneExclusive
      <3> QED
        BY <3>2, <3>3, <3>4
    <2>2. CASE ~AcquiresLane(c)
      BY <1>2, <1>3, <2>2 DEF ClaimNextCommand
    <2> QED
      BY <2>1, <2>2
  <1>4. ASSUME NEW c \in Commands, NEW w \in Claimants, ClaimantTransaction(c, w)
        PROVE LaneExclusive'
    <2>1. CASE UNCHANGED laneHeld
      BY <1>2, <2>1
    <2>2. CASE laneHeld' = [laneHeld EXCEPT ![RunOf[c]] = FALSE]
      BY <1>1, <2>2 DEF InboxTypeOK
    <2> QED
      BY <1>4, <2>1, <2>2
      DEF ClaimantTransaction, RenewCommandClaim, BeginCommandAttempt, MarkCommandApplied,
          MarkCommandRejected, ReleaseCommandClaim, DeferWithoutAttempt
  <1>5. ASSUME NEW r \in Runs, ReleaseLane(r) PROVE LaneExclusive'
    BY <1>1, <1>5 DEF ReleaseLane, InboxTypeOK
  <1>6. CASE ReleaseRejectedStartLanes
    BY <1>1, <1>6 DEF ReleaseRejectedStartLanes
  <1>7. ASSUME NEW c \in Commands,
               \/ RegisterRunWithStart(c) \/ EnqueueCommand(c) \/ ExpireClaim(c)
               \/ RejectUnstartedRunForCancel(c) \/ MarkCommandProductSynced(c)
        PROVE LaneExclusive'
    BY <1>2, <1>7
    DEF RegisterRunWithStart, EnqueueCommand, ExpireClaim, RejectUnstartedRunForCancel,
        MarkCommandProductSynced
  <1>8. CASE UNCHANGED inboxVars
    BY <1>2, <1>8 DEF inboxVars
  <1> QED
    BY <1>3, <1>4, <1>5, <1>6, <1>7, <1>8 DEF InboxNext

\* A lane never has two holders, for every number of Runs, lanes and worker
\* processes and every order of claims, rejections, repairs and releases.
THEOREM InboxLaneExclusive == InboxSpec => []LaneExclusive
  <1>1. InboxInit => LaneExclusive
    BY DEF InboxInit, LaneExclusive
  <1>2. InboxTypeOK /\ LaneExclusive /\ [InboxNext]_inboxVars => LaneExclusive'
    BY LaneExclusiveStep
  <1> QED
    BY <1>1, <1>2, InboxTypeCorrect, PTL DEF InboxSpec
-----------------------------------------------------------------------------
(***************************************************************************)
(* Settlement and claims: what a step may never do.                        *)
(***************************************************************************)

\* No transaction changes the status or the checkpoint of a settled Command.
LEMMA SettledRowKept ==
    ASSUME InboxTypeOK, [InboxNext]_inboxVars, NEW c \in Commands, Settled(c)
    PROVE  cmd'[c].status = cmd[c].status /\ cmd'[c].checkpoint = cmd[c].checkpoint
  <1> DEFINE Kept == cmd'[c].status = cmd[c].status /\ cmd'[c].checkpoint = cmd[c].checkpoint
  <1>0. /\ cmd \in [Commands -> CommandRow]
        /\ cmd[c] \in CommandRow
        /\ cmd[c].status \in {"applied", "rejected"}
    BY DEF InboxTypeOK, Settled
  <1>1. ASSUME NEW d \in Commands, RegisterRunWithStart(d) \/ EnqueueCommand(d)
        PROVE Kept
    BY <1>0, <1>1 DEF RegisterRunWithStart, EnqueueCommand
  <1>2. ASSUME NEW d \in Commands, NEW w \in Claimants, ClaimNextCommand(d, w)
        PROVE Kept
    <2>1. cmd[d].status \in {"pending", "claimed"}
      BY <1>2 DEF ClaimNextCommand, Claimable, Reclaimable
    <2>2. c # d
      BY <1>0, <2>1
    <2> QED
      BY <1>0, <1>2, <2>2 DEF ClaimNextCommand
  <1>3. ASSUME NEW d \in Commands, ExpireClaim(d) PROVE Kept
    BY <1>0, <1>3 DEF ExpireClaim, ClaimedLive
  <1>4. ASSUME NEW d \in Commands, NEW w \in Claimants, ClaimantTransaction(d, w)
        PROVE Kept
    <2>1. CASE RequireClaimant(d, w)
      <3>1. c # d
        BY <1>0, <2>1 DEF RequireClaimant
      <3> QED
        BY <1>0, <1>4, <3>1
        DEF ClaimantTransaction, RenewCommandClaim, BeginCommandAttempt, MarkCommandApplied,
            MarkCommandRejected, ReleaseCommandClaim, DeferWithoutAttempt
    <2>2. CASE UNCHANGED cmd
      BY <2>2
    <2> QED
      BY <1>4, <2>1, <2>2
      DEF ClaimantTransaction, RenewCommandClaim, BeginCommandAttempt, MarkCommandApplied,
          MarkCommandRejected, ReleaseCommandClaim, DeferWithoutAttempt
  <1>5. ASSUME NEW d \in Commands, RejectUnstartedRunForCancel(d) PROVE Kept
    <2>1. c \notin UnstartedStarts(d)
      BY <1>0 DEF UnstartedStarts, Reclaimable
    <2> QED
      BY <1>0, <1>5, <2>1 DEF RejectUnstartedRunForCancel
  <1>6. ASSUME NEW d \in Commands, MarkCommandProductSynced(d) PROVE Kept
    BY <1>0, <1>6 DEF MarkCommandProductSynced, CommandRow
  <1>7. CASE UNCHANGED cmd
    BY <1>7
  <1> QED
    BY <1>1, <1>2, <1>3, <1>4, <1>5, <1>6, <1>7
    DEF InboxNext, ReleaseLane, ReleaseRejectedStartLanes, inboxVars

\* The first settlement of a Command stands for ever: no late worker, retry,
\* cancel or repair rewrites it.
THEOREM InboxSettlementIsFinal == InboxSpec => SettlementIsFinal
  <1>1. InboxTypeOK /\ [InboxNext]_inboxVars
           => [\A c \in Commands : Settled(c) => /\ cmd'[c].status = cmd[c].status
                                                 /\ cmd'[c].checkpoint = cmd[c].checkpoint]_inboxVars
    BY SettledRowKept
  <1> QED
    BY <1>1, InboxTypeCorrect, PTL DEF InboxSpec, SettlementIsFinal

\* A live claim stays with its claimant or ends; it is never handed over.
LEMMA LiveClaimStep ==
    ASSUME InboxTypeOK, [InboxNext]_inboxVars, NEW c \in Commands,
           ClaimedLive(c), cmd'[c].status = "claimed"
    PROVE  cmd'[c].claimant = cmd[c].claimant
  <1> DEFINE Same == cmd'[c].claimant = cmd[c].claimant
  <1>0. /\ cmd \in [Commands -> CommandRow]
        /\ cmd[c] \in CommandRow
        /\ cmd[c].status = "claimed" /\ cmd[c].live
    BY DEF InboxTypeOK, ClaimedLive
  <1>1. ASSUME NEW d \in Commands, RegisterRunWithStart(d) \/ EnqueueCommand(d)
        PROVE Same
    BY <1>0, <1>1 DEF RegisterRunWithStart, EnqueueCommand
  <1>2. ASSUME NEW d \in Commands, NEW w \in Claimants, ClaimNextCommand(d, w)
        PROVE Same
    <2>1. c # d
      BY <1>0, <1>2 DEF ClaimNextCommand, Claimable, Reclaimable
    <2> QED
      BY <1>0, <1>2, <2>1 DEF ClaimNextCommand
  <1>3. ASSUME NEW d \in Commands, ExpireClaim(d) PROVE Same
    BY <1>0, <1>3 DEF ExpireClaim, CommandRow
  <1>4. ASSUME NEW d \in Commands, NEW w \in Claimants, ClaimantTransaction(d, w)
        PROVE Same
    <2>1. CASE RenewCommandClaim(d, w) \/ BeginCommandAttempt(d, w)
      BY <1>0, <2>1 DEF RenewCommandClaim, BeginCommandAttempt, CommandRow
    <2>2. ASSUME NEW ckpt, MarkCommandApplied(d, w, ckpt) PROVE Same
      BY <1>0, <2>2 DEF MarkCommandApplied, CommandRow
    <2>3. ASSUME NEW code, MarkCommandRejected(d, w, code) PROVE Same
      BY <1>0, <2>3 DEF MarkCommandRejected, CommandRow
    <2>4. CASE ReleaseCommandClaim(d, w) \/ DeferWithoutAttempt(d, w)
      <3>1. c # d
        <4>1. SUFFICES ASSUME c = d PROVE FALSE
          OBVIOUS
        <4>2. cmd'[d].status = "pending"
          BY <1>0, <2>4 DEF ReleaseCommandClaim, DeferWithoutAttempt, CommandRow
        <4> QED
          BY <4>1, <4>2
      <3> QED
        BY <1>0, <2>4, <3>1 DEF ReleaseCommandClaim, DeferWithoutAttempt
    <2> QED
      BY <1>4, <2>1, <2>2, <2>3, <2>4 DEF ClaimantTransaction
  <1>5. ASSUME NEW d \in Commands, RejectUnstartedRunForCancel(d) PROVE Same
    <2>1. c \notin UnstartedStarts(d)
      BY <1>0 DEF UnstartedStarts, Reclaimable
    <2> QED
      BY <1>0, <1>5, <2>1 DEF RejectUnstartedRunForCancel
  <1>6. ASSUME NEW d \in Commands, MarkCommandProductSynced(d) PROVE Same
    BY <1>0, <1>6 DEF MarkCommandProductSynced, CommandRow
  <1>7. CASE UNCHANGED cmd
    BY <1>7
  <1> QED
    BY <1>1, <1>2, <1>3, <1>4, <1>5, <1>6, <1>7
    DEF InboxNext, ReleaseLane, ReleaseRejectedStartLanes, inboxVars

\* Two processes never both believe in a live claim of one Command: a claim
\* passes on only after its lease has run out.
THEOREM InboxLiveClaimIsNotTaken == InboxSpec => LiveClaimIsNotTaken
  <1>1. InboxTypeOK /\ [InboxNext]_inboxVars
           => [\A c \in Commands : ClaimedLive(c) /\ cmd'[c].status = "claimed"
                                       => cmd'[c].claimant = cmd[c].claimant]_inboxVars
    BY LiveClaimStep
  <1> QED
    BY <1>1, InboxTypeCorrect, PTL DEF InboxSpec, LiveClaimIsNotTaken
-----------------------------------------------------------------------------
(***************************************************************************)
(* The inbox implements the ledger.  Claiming, renewing, counting and      *)
(* releasing are stutters; a claim that takes a free lane is Admit.        *)
(***************************************************************************)
Outcomes == [c \in Commands |-> Outcome(c)]
Holders == [l \in Lanes |-> {r \in Runs : LaneOf[r] = l /\ laneHeld[r]}]

\* A step that leaves status and lanes alone is invisible in the ledger.
LEMMA LedgerStutter ==
    ASSUME \A c \in Commands : Outcome(c)' = Outcome(c), UNCHANGED laneHeld
    PROVE  UNCHANGED Ledger!vars
  BY DEF Ledger!vars

\* Settling one open Command, whatever happens to the lane of its Run.
LEMMA LedgerSettle ==
    ASSUME InboxTypeOK, NEW c \in Commands, Unfinished(c),
           NEW v \in {"applied", "rejected"}, Outcome(c)' = v,
           \A d \in Commands \ {c} : Outcome(d)' = Outcome(d),
           \/ UNCHANGED laneHeld
           \/ laneHeld' = [laneHeld EXCEPT ![RunOf[c]] = FALSE]
    PROVE  Ledger!Next
  <1>1. Outcome(c) = "open"
    BY DEF Unfinished, Outcome
  <1>2. Outcomes' = [Outcomes EXCEPT ![c] = v]
    BY DEF Outcomes
  <1>3. UNCHANGED Holders \/ Holders' = [l \in Lanes |-> Holders[l] \ {RunOf[c]}]
    <2>1. CASE UNCHANGED laneHeld
      BY <2>1 DEF Holders
    <2>2. CASE laneHeld' = [laneHeld EXCEPT ![RunOf[c]] = FALSE]
      <3>1. \A l \in Lanes : {r \in Runs : LaneOf[r] = l /\ laneHeld'[r]}
                                = {r \in Runs : LaneOf[r] = l /\ laneHeld[r]} \ {RunOf[c]}
        BY <2>2, CommandsAssumption DEF InboxTypeOK
      <3> QED
        BY <3>1 DEF Holders
    <2> QED
      BY <2>1, <2>2
  <1>4. Ledger!Settle(c, v)
    BY <1>1, <1>2, <1>3 DEF Ledger!Settle, Ledger!Return, Outcomes, Holders
  <1> QED
    BY <1>4 DEF Ledger!Next

\* Lanes given back without a settlement.
LEMMA LedgerLeave ==
    ASSUME NEW R \in SUBSET Runs, UNCHANGED cmd,
           \A r \in Runs : laneHeld'[r] <=> laneHeld[r] /\ r \notin R
    PROVE  Ledger!Next
  <1>1. UNCHANGED Outcomes
    BY DEF Outcomes, Outcome
  <1>2. Holders' = [l \in Lanes |-> Holders[l] \ R]
    BY DEF Holders
  <1>3. Ledger!Leave(R)
    BY <1>1, <1>2 DEF Ledger!Leave, Ledger!Return, Outcomes, Holders
  <1> QED
    BY <1>3 DEF Ledger!Next
\* A claim is Admit when it takes a free lane, and invisible otherwise.
LEMMA LedgerClaim ==
    ASSUME InboxTypeOK, NEW c \in Commands, NEW w \in Claimants, ClaimNextCommand(c, w)
    PROVE  Ledger!Next \/ UNCHANGED Ledger!vars
  <1> DEFINE r == RunOf[c]
  <1>1. cmd[c].status \in {"pending", "claimed"}
    BY DEF ClaimNextCommand, Claimable, Reclaimable
  <1>2. \A d \in Commands : Outcome(d)' = Outcome(d)
    <2>1. cmd'[c].status = "claimed"
      BY DEF ClaimNextCommand, InboxTypeOK, CommandRow
    <2>2. \A d \in Commands \ {c} : cmd'[d] = cmd[d]
      BY DEF ClaimNextCommand, InboxTypeOK
    <2> QED
      BY <1>1, <2>1, <2>2 DEF Outcome
  <1>3. CASE UNCHANGED laneHeld
    BY <1>2, <1>3, LedgerStutter
  <1>4. CASE AcquiresLane(c) /\ ~laneHeld[r]
    <2>1. Kind[c] = "start" /\ LaneOf[r] \in Lanes /\ r \in Runs
      BY <1>4, CommandsAssumption, LanesAssumption DEF AcquiresLane
    <2>2. ~ActiveLaneHolder(r)
      BY <1>4 DEF ClaimNextCommand, Claimable, LaneAdmits, AcquiresLane
    <2>3. Holders[LaneOf[r]] = {}
      BY <1>4, <2>1, <2>2 DEF Holders, ActiveLaneHolder
    <2>4. laneHeld' = [laneHeld EXCEPT ![r] = TRUE]
      BY <1>4 DEF ClaimNextCommand
    <2>5. \A q \in Runs : laneHeld'[q] <=> laneHeld[q] \/ q = r
      BY <2>1, <2>4 DEF InboxTypeOK
    <2>6. \A l \in Lanes : Holders'[l] = IF l = LaneOf[r] THEN {r} ELSE Holders[l]
      <3> SUFFICES ASSUME NEW l \in Lanes
                   PROVE Holders'[l] = IF l = LaneOf[r] THEN {r} ELSE Holders[l]
        OBVIOUS
      <3>1. Holders'[l] = {q \in Runs : LaneOf[q] = l /\ laneHeld'[q]}
        BY DEF Holders
      <3>2. CASE l = LaneOf[r]
        BY <2>1, <2>3, <2>5, <3>1, <3>2 DEF Holders
      <3>3. CASE l # LaneOf[r]
        BY <2>1, <2>5, <3>1, <3>3 DEF Holders
      <3> QED
        BY <3>2, <3>3
    <2>7. Holders' = [Holders EXCEPT ![LaneOf[r]] = {r}]
      BY <2>1, <2>6 DEF Holders
    <2>8. Outcome(c) = "open" /\ UNCHANGED Outcomes
      BY <1>1, <1>2 DEF Outcome, Outcomes
    <2>9. Ledger!Admit(c)
      BY <2>1, <2>3, <2>7, <2>8 DEF Ledger!Admit, Outcomes, Holders
    <2> QED
      BY <2>9 DEF Ledger!Next
  <1>5. CASE AcquiresLane(c) /\ laneHeld[r]
    BY <1>3, <1>5, CommandsAssumption DEF ClaimNextCommand, InboxTypeOK
  <1>6. CASE ~AcquiresLane(c)
    BY <1>3, <1>6 DEF ClaimNextCommand
  <1> QED
    BY <1>4, <1>5, <1>6

\* A cancel that finds no checkpoint settles at most one Command besides
\* itself: the start of its Run.
LEMMA LedgerUnstart ==
    ASSUME InboxTypeOK, NEW c \in Commands, RejectUnstartedRunForCancel(c)
    PROVE  Ledger!Next \/ UNCHANGED Ledger!vars
  <1>1. UNCHANGED laneHeld
    BY DEF RejectUnstartedRunForCancel
  <1>2. \A p \in Commands : Outcome(p)' = IF p \in UnstartedStarts(c) THEN "rejected" ELSE Outcome(p)
    BY DEF RejectUnstartedRunForCancel, Outcome, InboxTypeOK, CommandRow
  <1>3. CASE UnstartedStarts(c) = {}
    BY <1>1, <1>2, <1>3, LedgerStutter
  <1>4. CASE UnstartedStarts(c) # {}
    <2>1. PICK p : p \in UnstartedStarts(c)
      BY <1>4
    <2>2. p \in Commands /\ RunOf[p] = RunOf[c] /\ Kind[p] = "start" /\ Unfinished(p)
      BY <2>1 DEF UnstartedStarts, Reclaimable, Unfinished
    <2>3. PICK s \in Commands : \A d \in Commands :
              RunOf[d] = RunOf[c] /\ d # s => Kind[d] # "start"
      <3>1. RunOf[c] \in Runs
        BY CommandsAssumption
      <3>2. PICK s \in Commands :
                /\ RunOf[s] = RunOf[c]
                /\ Kind[s] = "start"
                /\ \A d \in Commands : RunOf[d] = RunOf[c] /\ d # s => s < d /\ Kind[d] # "start"
        BY <3>1, StartAssumption
      <3> QED
        BY <3>2, Zenon
    <2>4. \A d \in UnstartedStarts(c) : d = p
      BY <2>2, <2>3 DEF UnstartedStarts
    <2>5. \A d \in Commands \ {p} : Outcome(d)' = Outcome(d)
      BY <1>2, <2>4
    <2>6. Outcome(p)' = "rejected"
      BY <1>2, <2>1, <2>2
    <2> QED
      BY <1>1, <2>2, <2>5, <2>6, LedgerSettle
  <1> QED
    BY <1>3, <1>4
\* Every step of the inbox is a step of the ledger or leaves it unchanged.
LEMMA LedgerStep ==
    InboxTypeOK /\ [InboxNext]_inboxVars => [Ledger!Next]_(Ledger!vars)
  <1> SUFFICES ASSUME InboxTypeOK, [InboxNext]_inboxVars
               PROVE Ledger!Next \/ UNCHANGED Ledger!vars
    OBVIOUS
  <1> DEFINE Goal == Ledger!Next \/ UNCHANGED Ledger!vars
  <1>0. ASSUME \A c \in Commands : cmd'[c].status = cmd[c].status, UNCHANGED laneHeld
        PROVE Goal
    BY <1>0, LedgerStutter DEF Outcome
  <1>1. ASSUME NEW c \in Commands, RegisterRunWithStart(c) \/ EnqueueCommand(c)
        PROVE Goal
    <2>1. UNCHANGED Holders
      BY <1>1 DEF RegisterRunWithStart, EnqueueCommand, Holders
    <2>2. Outcomes[c] = "absent"
      BY <1>1 DEF RegisterRunWithStart, EnqueueCommand, Outcomes, Outcome
    <2>3. Outcomes' = [Outcomes EXCEPT ![c] = "open"]
      <3>1. Outcome(c)' = "open"
        BY <1>1 DEF RegisterRunWithStart, EnqueueCommand, Outcome, InboxTypeOK, CommandRow
      <3>2. \A d \in Commands \ {c} : Outcome(d)' = Outcome(d)
        BY <1>1 DEF RegisterRunWithStart, EnqueueCommand, Outcome, InboxTypeOK
      <3> QED
        BY <3>1, <3>2 DEF Outcomes
    <2>4. Ledger!Submit(c)
      BY <2>1, <2>2, <2>3 DEF Ledger!Submit, Outcomes, Holders
    <2> QED
      BY <2>4 DEF Ledger!Next
  <1>2. ASSUME NEW c \in Commands, NEW w \in Claimants, ClaimNextCommand(c, w)
        PROVE Goal
    BY <1>2, LedgerClaim
  <1>3. ASSUME NEW c \in Commands, ExpireClaim(c) \/ MarkCommandProductSynced(c) PROVE Goal
    BY <1>0, <1>3 DEF ExpireClaim, MarkCommandProductSynced, InboxTypeOK, CommandRow
  <1>4. ASSUME NEW c \in Commands, NEW w \in Claimants, ClaimantTransaction(c, w)
        PROVE Goal
    <2>1. CASE RenewCommandClaim(c, w) \/ BeginCommandAttempt(c, w)
      BY <1>0, <2>1 DEF RenewCommandClaim, BeginCommandAttempt, InboxTypeOK, CommandRow
    <2>2. CASE ReleaseCommandClaim(c, w) \/ DeferWithoutAttempt(c, w)
      <3>1. cmd'[c].status = "pending" /\ cmd[c].status = "claimed"
        BY <2>2 DEF ReleaseCommandClaim, DeferWithoutAttempt, RequireClaimant, InboxTypeOK, CommandRow
      <3>2. \A d \in Commands \ {c} : cmd'[d] = cmd[d]
        BY <2>2 DEF ReleaseCommandClaim, DeferWithoutAttempt, InboxTypeOK
      <3>3. \A d \in Commands : Outcome(d)' = Outcome(d)
        BY <3>1, <3>2 DEF Outcome
      <3>4. UNCHANGED laneHeld
        BY <2>2 DEF ReleaseCommandClaim, DeferWithoutAttempt
      <3> QED
        BY <3>3, <3>4, LedgerStutter
    <2>3. ASSUME NEW ckpt \in Checkpoints \cup {NoCheckpoint}, MarkCommandApplied(c, w, ckpt)
          PROVE Goal
      <3>1. CASE UNCHANGED cmd
        BY <1>0, <2>3, <3>1 DEF MarkCommandApplied
      <3>2. CASE RequireClaimant(c, w) /\ ~UNCHANGED cmd
        <4>1. Unfinished(c) /\ UNCHANGED laneHeld
          BY <2>3, <3>2 DEF MarkCommandApplied, RequireClaimant, Unfinished
        <4>2. Outcome(c)' = "applied"
          BY <2>3, <3>2 DEF MarkCommandApplied, Outcome, InboxTypeOK, CommandRow
        <4>3. \A d \in Commands \ {c} : Outcome(d)' = Outcome(d)
          BY <2>3, <3>2 DEF MarkCommandApplied, Outcome, InboxTypeOK
        <4> QED
          BY <4>1, <4>2, <4>3, LedgerSettle
      <3> QED
        BY <2>3, <3>1, <3>2 DEF MarkCommandApplied
    <2>4. ASSUME NEW code \in RejectionCodes, MarkCommandRejected(c, w, code) PROVE Goal
      <3>0. \/ UNCHANGED laneHeld
            \/ laneHeld' = [laneHeld EXCEPT ![RunOf[c]] = FALSE]
        BY <2>4 DEF MarkCommandRejected
      <3>1. CASE UNCHANGED cmd
        <4>1. CASE UNCHANGED laneHeld
          BY <1>0, <3>1, <4>1
        <4>2. CASE laneHeld' = [laneHeld EXCEPT ![RunOf[c]] = FALSE]
          <5>1. {RunOf[c]} \in SUBSET Runs
            BY CommandsAssumption
          <5>2. \A r \in Runs : laneHeld'[r] <=> laneHeld[r] /\ r \notin {RunOf[c]}
            BY <4>2, CommandsAssumption DEF InboxTypeOK
          <5> QED
            BY <3>1, <5>1, <5>2, LedgerLeave
        <4> QED
          BY <3>0, <4>1, <4>2
      <3>2. CASE RequireClaimant(c, w) /\ ~UNCHANGED cmd
        <4>1. Unfinished(c)
          BY <3>2 DEF RequireClaimant, Unfinished
        <4>2. Outcome(c)' = "rejected"
          BY <2>4, <3>2 DEF MarkCommandRejected, Outcome, InboxTypeOK, CommandRow
        <4>3. \A d \in Commands \ {c} : Outcome(d)' = Outcome(d)
          BY <2>4, <3>2 DEF MarkCommandRejected, Outcome, InboxTypeOK
        <4> QED
          BY <3>0, <4>1, <4>2, <4>3, LedgerSettle
      <3> QED
        BY <2>4, <3>1, <3>2 DEF MarkCommandRejected
    <2> QED
      BY <1>4, <2>1, <2>2, <2>3, <2>4 DEF ClaimantTransaction
  <1>5. ASSUME NEW c \in Commands, RejectUnstartedRunForCancel(c) PROVE Goal
    BY <1>5, LedgerUnstart
  <1>6. ASSUME NEW r \in Runs, ReleaseLane(r) PROVE Goal
    <2>1. {r} \in SUBSET Runs
      OBVIOUS
    <2>2. \A q \in Runs : laneHeld'[q] <=> laneHeld[q] /\ q \notin {r}
      BY <1>6 DEF ReleaseLane, InboxTypeOK
    <2> QED
      BY <1>6, <2>1, <2>2, LedgerLeave DEF ReleaseLane
  <1>7. CASE ReleaseRejectedStartLanes
    <2> DEFINE R == {r \in Runs : RejectedStart(r)}
    <2>1. R \in SUBSET Runs
      OBVIOUS
    <2>2. \A q \in Runs : laneHeld'[q] <=> laneHeld[q] /\ q \notin R
      BY <1>7 DEF ReleaseRejectedStartLanes
    <2> QED
      BY <1>7, <2>1, <2>2, LedgerLeave DEF ReleaseRejectedStartLanes
  <1>8. CASE UNCHANGED inboxVars
    BY <1>0, <1>8 DEF inboxVars
  <1> QED
    BY <1>1, <1>2, <1>3, <1>4, <1>5, <1>6, <1>7, <1>8 DEF InboxNext

\* persistence.py implements the ledger: Commands are settled once, and a lane
\* is a lock taken only by an open start while nobody holds it.
THEOREM InboxImplementsLedger == InboxSpec => LedgerSpec
  <1>1. InboxInit => Ledger!Init
    BY DEF InboxInit, AbsentRow, Outcome, Ledger!Init
  <1>2. InboxTypeOK /\ [InboxNext]_inboxVars => [Ledger!Next]_(Ledger!vars)
    BY LedgerStep
  <1> QED
    BY <1>1, <1>2, InboxTypeCorrect, PTL DEF InboxSpec, LedgerSpec, Ledger!Spec
=============================================================================

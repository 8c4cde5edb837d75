--------------------------- MODULE ToolLedgerProofs ---------------------------
(***************************************************************************)
(* Proofs about the Tool Execution Ledger: its types, at most one effect   *)
(* per call, true Group workspace receipts, answers that agree with the    *)
(* receipts, and settled receipts that never change.                       *)
(***************************************************************************)
EXTENDS ToolLedger, TLAPS

Settled == {"succeeded", "failed"}

(***************************************************************************)
(* The inductive invariant: what holds of a call's receipt, of a Group     *)
(* mutation, and of the invocation a slot runs.                            *)
(***************************************************************************)

\* An attempt is counted before the provider is called; a call that may not
\* be repeated has one attempt; what was told is what the receipt says.
RowIsSound(c) ==
    LET r == receipt[c] IN
    /\ r.status # "started" => r.owner = NoOwner /\ r.lease = "none" /\ r.pending = "no"
    /\ r.status = "none" => r.attempts = 0
    /\ r.attempts <= IF Kind[c] = "read" THEN MaxAttempts ELSE 1
    /\ effects[c] <= r.attempts
    /\ r.pending # "no" => Kind[c] # "group"
    /\ \A a \in answers[c] \ {"unknown"} : r.status = a

\* A mutation that was never prepared has not been sent to the storage, the
\* prepared version of the file outlives no write, and every sign of success
\* is left by a file that was written.
MutationIsSound(c) ==
    /\ c \in inflight => Kind[c] = "group"
    /\ Kind[c] = "group" =>
        /\ receipt[c].status = "none" => revision[c] = "none"
        /\ revision[c] = "none" => effects[c] = 0 /\ c \notin inflight /\ ~file[c].intact
        /\ file[c].intact => effects[c] < receipt[c].attempts
        /\ \/ file[c].holds = "new" \/ revision[c] = "final"
           \/ c \in envelope \/ receipt[c].status = "succeeded"
           => file[c].met
        /\ receipt[c].status = "failed" => effects[c] = 0 /\ c \notin inflight

\* A granted slot has its attempt before it; a slot that owns a mutation it has
\* prepared, or is about to fail, knows that nothing was or will be written.
SlotIsSound(s) ==
    LET c == step[s].call
        pc == step[s].pc
        result == step[s].result IN
    pc # "idle" =>
    /\ c \in Calls
    /\ pc \in {"prepared", "applied", "takeover", "reconcile"} => Kind[c] = "group"
    /\ pc = "calling" => Kind[c] # "group"
    /\ pc \in {"probe", "unavailable"} => Kind[c] = "read"
    /\ pc = "granted" =>
        /\ effects[c] < receipt[c].attempts
        /\ Kind[c] = "group" => revision[c] = "none"
        /\ \/ Kind[c] = "group"
           \/ Owned(c, s) /\ receipt[c].pending = "no"
           \/ receipt[c].status \in Settled
    /\ pc = "prepared" => revision[c] # "none"
    /\ pc = "prepared" /\ Owned(c, s) => effects[c] = 0 /\ c \notin inflight
    /\ pc \in {"returned", "archived"} /\ Kind[c] = "group" =>
        /\ result \in {"ok", "failed", "unknown"}
        /\ result = "ok" => file[c].met
        /\ result = "failed" /\ Owned(c, s) => effects[c] = 0 /\ c \notin inflight
    /\ pc = "telling" /\ result \in Settled => receipt[c].status = result

\* No attempt is granted to two slots.
OneGrant ==
    \A s, t \in Slots :
        At(s, "granted") /\ At(t, "granted") /\ step[s].call = step[t].call => s = t

LedgerInv ==
    /\ TypeOK
    /\ \A c \in Calls : RowIsSound(c)
    /\ \A c \in Calls : MutationIsSound(c)
    /\ \A s \in Slots : SlotIsSound(s)
    /\ OneGrant

(***************************************************************************)
(* How slots move and how an ending invocation leaves the receipts.        *)
(***************************************************************************)

\* Only slot s moves.
OnlyMoves(s) ==
    /\ step' \in [Slots -> Step]
    /\ \A t \in Slots \ {s} : step'[t] = step[t]

\* Goto and GotoWith keep the call and the role of the invocation.
LEMMA GotoWithMoves ==
    ASSUME TypeOK, NEW s \in Slots, NEW pc, NEW result \in Results,
           pc \in {"idle", "granted", "calling", "prepared", "applied", "takeover",
                   "reconcile", "probe", "unavailable", "returned", "archived", "telling"},
           GotoWith(s, pc, result)
    PROVE  /\ OnlyMoves(s)
           /\ step'[s].pc = pc /\ step'[s].result = result
           /\ step'[s].call = step[s].call /\ step'[s].role = step[s].role
  <1>1. PICK row : row = [step[s] EXCEPT !.pc = pc, !.result = result]
    OBVIOUS
  <1>2. step \in [Slots -> Step] /\ step[s] \in Step
    BY DEF TypeOK
  <1>3. /\ row \in Step /\ row.pc = pc /\ row.result = result
        /\ row.call = step[s].call /\ row.role = step[s].role
    BY <1>1, <1>2 DEF Step
  <1>4. step' = [step EXCEPT ![s] = row]
    BY <1>1 DEF GotoWith
  <1> QED
    BY <1>2, <1>3, <1>4 DEF OnlyMoves

\* Goto keeps the result too.
LEMMA GotoMoves ==
    ASSUME TypeOK, NEW s \in Slots, NEW pc,
           pc \in {"idle", "granted", "calling", "prepared", "applied", "takeover",
                   "reconcile", "probe", "unavailable", "returned", "archived", "telling"},
           Goto(s, pc)
    PROVE  /\ OnlyMoves(s)
           /\ step'[s].pc = pc /\ step'[s].result = step[s].result
           /\ step'[s].call = step[s].call /\ step'[s].role = step[s].role
  BY DEF TypeOK, Goto, OnlyMoves, Step

\* Begin starts an invocation for call c.
LEMMA BeginMoves ==
    ASSUME TypeOK, NEW s \in Slots, NEW c \in Calls, NEW pc, NEW result \in Results,
           pc \in {"idle", "granted", "calling", "prepared", "applied", "takeover",
                   "reconcile", "probe", "unavailable", "returned", "archived", "telling"},
           Begin(s, c, pc, result)
    PROVE  /\ OnlyMoves(s)
           /\ step'[s].pc = pc /\ step'[s].result = result
           /\ step'[s].call = c /\ step'[s].role = "step"
  BY DEF TypeOK, Begin, OnlyMoves, Step

\* Defer leaves the slot idle and takes the leases of the slot away; nothing
\* else of a receipt changes.
LEMMA DeferMoves ==
    ASSUME TypeOK, NEW s \in Slots, NEW f \in [Calls -> Receipt], Defer(s, f)
    PROVE  /\ OnlyMoves(s)
           /\ step'[s].pc = "idle"
           /\ receipt' \in [Calls -> Receipt]
           /\ \A c \in Calls :
                /\ receipt'[c].status = f[c].status /\ receipt'[c].lease = f[c].lease
                /\ receipt'[c].attempts = f[c].attempts
                /\ receipt'[c].pending = f[c].pending
                /\ f[c].owner # s => receipt'[c] = f[c]
                /\ f[c].owner = s => receipt'[c].owner = Gone
  <1>1. Idle \in Step
    BY DEF Idle, Step, Results
  <1>2. step' = [step EXCEPT ![s] = Idle] /\ receipt' = Abandoned(f, s)
    BY DEF Defer
  <1>3. OnlyMoves(s) /\ step'[s].pc = "idle"
    BY <1>1, <1>2 DEF TypeOK, OnlyMoves, Idle
  <1>4. ASSUME NEW c \in Calls
        PROVE  /\ receipt'[c] = IF f[c].owner = s THEN [f[c] EXCEPT !.owner = Gone] ELSE f[c]
               /\ receipt'[c] \in Receipt
    BY <1>2 DEF Abandoned, Receipt
  <1>5. receipt' \in [Calls -> Receipt]
    BY <1>2, <1>4 DEF Abandoned
  <1>6. ASSUME NEW c \in Calls
        PROVE  /\ receipt'[c].status = f[c].status /\ receipt'[c].lease = f[c].lease
               /\ receipt'[c].attempts = f[c].attempts
               /\ receipt'[c].pending = f[c].pending
               /\ f[c].owner # s => receipt'[c] = f[c]
               /\ f[c].owner = s => receipt'[c].owner = Gone
    <2>1. f[c] \in Receipt
      OBVIOUS
    <2> QED
      BY <1>4, <2>1 DEF Receipt
  <1> QED
    BY <1>3, <1>5, <1>6

(***************************************************************************)
(* Steps that only move a slot.                                            *)
(***************************************************************************)

\* A slot that ends without touching a receipt other than its leases.
LEMMA DeferKeeps ==
    ASSUME LedgerInv, NEW s \in Slots, Defer(s, receipt),
           UNCHANGED <<envelope, revision, file, inflight, run, scheduled, effects, answers>>,
           faults' \in 0..MaxFaults
    PROVE  LedgerInv'
  <1>1. receipt \in [Calls -> Receipt] /\ TypeOK
    BY DEF LedgerInv, TypeOK
  <1>2. /\ OnlyMoves(s)
        /\ step'[s].pc = "idle"
        /\ receipt' \in [Calls -> Receipt]
        /\ \A c \in Calls :
             /\ receipt'[c].status = receipt[c].status /\ receipt'[c].lease = receipt[c].lease
             /\ receipt'[c].attempts = receipt[c].attempts
             /\ receipt'[c].pending = receipt[c].pending
             /\ receipt[c].owner # s => receipt'[c] = receipt[c]
             /\ receipt[c].owner = s => receipt'[c].owner = Gone
    BY <1>1, DeferMoves
  <1>3. TypeOK'
    BY <1>2 DEF TypeOK, LedgerInv, OnlyMoves
  <1>4. ASSUME NEW c \in Calls PROVE RowIsSound(c)'
    <2>1. RowIsSound(c) /\ NoOwner # s
      BY ToolAssumption DEF LedgerInv, Slots
    <2> QED
      BY <1>2, <2>1 DEF RowIsSound
  <1>5. ASSUME NEW c \in Calls PROVE MutationIsSound(c)'
    BY <1>2 DEF LedgerInv, MutationIsSound
  <1>6. ASSUME NEW t \in Slots PROVE SlotIsSound(t)'
    <2>1. CASE t = s
      BY <1>2, <2>1 DEF SlotIsSound
    <2>2. CASE t # s
      <3>1. SlotIsSound(t) /\ step'[t] = step[t] /\ Gone \notin Slots
        BY <1>2, <2>2, ToolAssumption DEF LedgerInv, OnlyMoves, Slots
      <3> QED
        BY <1>2, <2>2, <3>1 DEF SlotIsSound, Owned
    <2> QED
      BY <2>1, <2>2
  <1>7. OneGrant'
    BY <1>2 DEF LedgerInv, OneGrant, At, OnlyMoves
  <1> QED
    BY <1>3, <1>4, <1>5, <1>6, <1>7 DEF LedgerInv

\* A slot that goes on without changing anything else, and is not granted.
LEMMA MoveKeeps ==
    ASSUME LedgerInv, NEW s \in Slots, OnlyMoves(s), SlotIsSound(s)',
           step'[s].pc # "granted",
           UNCHANGED <<receipt, envelope, revision, file, inflight, run, scheduled,
                       effects, answers>>,
           faults' \in 0..MaxFaults
    PROVE  LedgerInv'
  <1>3. TypeOK'
    BY DEF TypeOK, LedgerInv, OnlyMoves
  <1>4. ASSUME NEW c \in Calls PROVE RowIsSound(c)' /\ MutationIsSound(c)'
    BY DEF LedgerInv, RowIsSound, MutationIsSound
  <1>6. ASSUME NEW t \in Slots, t # s PROVE SlotIsSound(t)'
    <2>1. SlotIsSound(t) /\ step'[t] = step[t]
      BY <1>6 DEF LedgerInv, OnlyMoves
    <2> QED
      BY <2>1 DEF SlotIsSound, Owned
  <1>7. OneGrant'
    BY DEF LedgerInv, OneGrant, At, OnlyMoves
  <1> QED
    BY <1>3, <1>4, <1>6, <1>7 DEF LedgerInv

(***************************************************************************)
(* Steps that change receipts.                                             *)
(***************************************************************************)

\* The receipts of E are closed; those of ended slots M may be left to Gone.
Closing(E, status, M) ==
    /\ receipt' \in [Calls -> Receipt]
    /\ \A c \in E :
        /\ receipt'[c].status = status /\ receipt'[c].owner = NoOwner
        /\ receipt'[c].lease = "none" /\ receipt'[c].pending = "no"
        /\ receipt'[c].attempts = receipt[c].attempts
    /\ \A c \in Calls \ E :
        /\ receipt'[c].status = receipt[c].status /\ receipt'[c].lease = receipt[c].lease
        /\ receipt'[c].pending = receipt[c].pending
        /\ receipt'[c].attempts = receipt[c].attempts
        /\ \/ receipt'[c].owner = receipt[c].owner
           \/ receipt[c].owner \in M /\ receipt'[c].owner = Gone

\* Closing receipts is sound when nothing settled is touched, no granted call of
\* a provider becomes unknown, and a Group receipt is closed with the truth.
LEMMA ClosingKeeps ==
    ASSUME LedgerInv, NEW E \in SUBSET Calls, NEW status \in Terminal, NEW M \in SUBSET Slots,
           Closing(E, status, M),
           step' \in [Slots -> Step],
           \A t \in Slots \ M : step'[t] = step[t],
           \A t \in M : SlotIsSound(t)' /\ step'[t].pc # "granted",
           \A c \in E :
               /\ receipt[c].status \in {"started", "unknown"}
               /\ Kind[c] = "group" =>
                    /\ status = "succeeded" => file[c].met
                    /\ status = "failed" => effects[c] = 0 /\ c \notin inflight
               /\ \A t \in Slots \ M :
                    At(t, "granted") /\ step[t].call = c =>
                        Kind[c] = "group" \/ status \in Settled,
           UNCHANGED <<envelope, revision, file, inflight, run, scheduled, effects,
                       answers, faults>>
    PROVE  LedgerInv'
  <1>1. TypeOK'
    BY DEF TypeOK, LedgerInv, Closing
  <1>2. ASSUME NEW c \in Calls PROVE RowIsSound(c)'
    <2>1. RowIsSound(c) /\ answers[c] \subseteq Terminal /\ NoOwner \notin M
      BY ToolAssumption DEF LedgerInv, Slots, TypeOK
    <2>2. CASE c \in E
      BY <2>1, <2>2 DEF RowIsSound, Closing, Terminal
    <2>3. CASE c \notin E
      BY <2>1, <2>3 DEF RowIsSound, Closing
    <2> QED
      BY <2>2, <2>3
  <1>3. ASSUME NEW c \in Calls PROVE MutationIsSound(c)'
    <2>1. MutationIsSound(c)
      BY DEF LedgerInv
    <2>2. CASE c \in E
      BY <2>1, <2>2 DEF MutationIsSound, Closing, Terminal
    <2>3. CASE c \notin E
      BY <2>1, <2>3 DEF MutationIsSound, Closing
    <2> QED
      BY <2>2, <2>3
  <1>4. ASSUME NEW t \in Slots PROVE SlotIsSound(t)'
    <2>1. CASE t \in M
      BY <2>1
    <2>2. CASE t \notin M /\ step[t].pc # "idle"
      <3> DEFINE c == step[t].call
      <3>1. /\ SlotIsSound(t) /\ step'[t] = step[t] /\ Gone # t /\ NoOwner # t
            /\ c \in Calls
        BY <2>2, ToolAssumption DEF LedgerInv, Slots, SlotIsSound
      <3>2. CASE c \in E
        <4>1. ~Owned(c, t)'
          BY <3>1, <3>2 DEF Closing, Owned
        <4>2. step[t].pc = "granted" => Kind[c] = "group" \/ receipt'[c].status \in Settled
          BY <2>2, <3>2 DEF At, Closing
        <4>3. receipt'[c].attempts = receipt[c].attempts
          BY <3>2 DEF Closing
        <4>4. ~(step[t].pc = "telling" /\ step[t].result \in Settled)
          BY <3>1, <3>2 DEF SlotIsSound, Settled
        <4> QED
          BY <3>1, <4>1, <4>2, <4>3, <4>4 DEF SlotIsSound
      <3>3. CASE c \notin E
        BY <2>2, <3>1, <3>3 DEF SlotIsSound, Owned, Closing
      <3> QED
        BY <3>2, <3>3
    <2>3. CASE t \notin M /\ step[t].pc = "idle"
      BY <2>3 DEF SlotIsSound
    <2> QED
      BY <2>1, <2>2, <2>3
  <1>5. OneGrant'
    BY DEF LedgerInv, OneGrant, At
  <1> QED
    BY <1>1, <1>2, <1>3, <1>4, <1>5 DEF LedgerInv

\* A grant of a new attempt: no attempt of the call is under way.
LEMMA GrantKeeps ==
    ASSUME LedgerInv, NEW s \in Slots, NEW c \in Calls, NEW n \in Nat,
           receipt' = [receipt EXCEPT ![c] = Started(s, n)],
           Begin(s, c, "granted", "none"),
           At(s, "idle"),
           receipt[c].status \notin Terminal,
           effects[c] < n, n <= MaxAttempts, Kind[c] # "read" => n <= 1,
           Kind[c] = "group" => receipt[c].status = "none",
           receipt[c].attempts <= n,
           \A t \in Slots : ~(At(t, "granted") /\ step[t].call = c),
           UNCHANGED <<envelope, revision, file, inflight, run, scheduled, effects,
                       answers, faults>>
    PROVE  LedgerInv'
  <1> DEFINE row == Started(s, n)
  <1>1. /\ row \in Receipt
        /\ row.status = "started" /\ row.owner = s /\ row.lease = "live"
        /\ row.attempts = n /\ row.pending = "no"
    BY ToolAssumption DEF Started, Receipt, Slots
  <1>2. receipt' = [receipt EXCEPT ![c] = row]
    OBVIOUS
  <1> HIDE DEF row
  <1>3. /\ receipt' \in [Calls -> Receipt] /\ receipt'[c] = row
        /\ \A e \in Calls \ {c} : receipt'[e] = receipt[e]
    BY <1>1, <1>2 DEF LedgerInv, TypeOK
  <1>4. /\ OnlyMoves(s)
        /\ step'[s].pc = "granted" /\ step'[s].call = c
    BY BeginMoves DEF LedgerInv, Results
  <1>5. TypeOK'
    BY <1>3, <1>4 DEF TypeOK, LedgerInv, OnlyMoves
  <1>6. ASSUME NEW e \in Calls PROVE RowIsSound(e)'
    <2>1. RowIsSound(e) /\ answers[e] \subseteq Terminal /\ effects[e] \in Nat
      BY DEF LedgerInv, TypeOK
    <2>2. CASE e = c
      BY <1>1, <1>3, <2>1, <2>2, ToolAssumption DEF RowIsSound
    <2>3. CASE e # c
      BY <1>3, <2>1, <2>3 DEF RowIsSound
    <2> QED
      BY <2>2, <2>3
  <1>7. ASSUME NEW e \in Calls PROVE MutationIsSound(e)'
    <2>1. MutationIsSound(e)
      BY DEF LedgerInv
    <2>2. CASE e = c
      BY <1>1, <1>3, <2>1, <2>2 DEF MutationIsSound
    <2>3. CASE e # c
      BY <1>3, <2>1, <2>3 DEF MutationIsSound
    <2> QED
      BY <2>2, <2>3
  <1>8. ASSUME NEW t \in Slots PROVE SlotIsSound(t)'
    <2>1. CASE t = s
      <3>1. Kind[c] = "group" => revision[c] = "none"
        BY DEF LedgerInv, MutationIsSound
      <3>2. Owned(c, s)'
        BY <1>1, <1>3 DEF Owned
      <3> QED
        BY <1>1, <1>3, <1>4, <2>1, <3>1, <3>2 DEF SlotIsSound
    <2>2. CASE t # s
      <3>1. SlotIsSound(t) /\ step'[t] = step[t]
        BY <1>4, <2>2 DEF LedgerInv, OnlyMoves
      <3>2. CASE step[t].call = c
        BY <1>1, <1>3, <2>2, <3>1, <3>2 DEF SlotIsSound, Owned, At, Settled, Terminal
      <3>3. CASE step[t].call # c
        BY <1>3, <3>1, <3>3 DEF SlotIsSound, Owned
      <3> QED
        BY <3>2, <3>3
    <2> QED
      BY <2>1, <2>2
  <1>9. OneGrant'
    BY <1>4 DEF LedgerInv, OneGrant, At, OnlyMoves
  <1> QED
    BY <1>5, <1>6, <1>7, <1>8, <1>9 DEF LedgerInv

\* A takeover of a Group mutation: whoever held it before has lost the fence.
LEMMA TakeoverKeeps ==
    ASSUME LedgerInv, NEW s \in Slots, NEW c \in Calls,
           receipt' = [receipt EXCEPT ![c] = Started(s, receipt[c].attempts)],
           receipt[c].status \in {"started", "unknown"},
           Kind[c] = "group",
           OnlyMoves(s), step'[s].pc = "reconcile", step'[s].call = c,
           UNCHANGED <<envelope, revision, file, inflight, run, scheduled, effects,
                       answers, faults>>
    PROVE  LedgerInv'
  <1> DEFINE row == Started(s, receipt[c].attempts)
  <1>0. receipt[c] \in Receipt
    BY DEF LedgerInv, TypeOK
  <1>1. /\ row \in Receipt
        /\ row.status = "started" /\ row.owner = s /\ row.lease = "live"
        /\ row.attempts = receipt[c].attempts /\ row.pending = "no"
    BY <1>0 DEF Started, Receipt
  <1>2. receipt' = [receipt EXCEPT ![c] = row]
    OBVIOUS
  <1> HIDE DEF row
  <1>3. /\ receipt' \in [Calls -> Receipt] /\ receipt'[c] = row
        /\ \A e \in Calls \ {c} : receipt'[e] = receipt[e]
    BY <1>1, <1>2 DEF LedgerInv, TypeOK
  <1>4. TypeOK'
    BY <1>3 DEF TypeOK, LedgerInv, OnlyMoves
  <1>5. ASSUME NEW e \in Calls PROVE RowIsSound(e)'
    <2>1. RowIsSound(e) /\ answers[e] \subseteq Terminal
      BY DEF LedgerInv, TypeOK
    <2>2. CASE e = c
      BY <1>1, <1>3, <2>1, <2>2 DEF RowIsSound, Terminal
    <2>3. CASE e # c
      BY <1>3, <2>1, <2>3 DEF RowIsSound
    <2> QED
      BY <2>2, <2>3
  <1>6. ASSUME NEW e \in Calls PROVE MutationIsSound(e)'
    <2>1. MutationIsSound(e)
      BY DEF LedgerInv
    <2>2. CASE e = c
      BY <1>1, <1>3, <2>1, <2>2 DEF MutationIsSound
    <2>3. CASE e # c
      BY <1>3, <2>1, <2>3 DEF MutationIsSound
    <2> QED
      BY <2>2, <2>3
  <1>7. ASSUME NEW t \in Slots PROVE SlotIsSound(t)'
    <2>1. CASE t = s
      BY <2>1 DEF SlotIsSound
    <2>2. CASE t # s
      <3>1. SlotIsSound(t) /\ step'[t] = step[t]
        BY <2>2 DEF LedgerInv, OnlyMoves
      <3>2. CASE step[t].call = c
        BY <1>1, <1>3, <2>2, <3>1, <3>2 DEF SlotIsSound, Owned, Settled
      <3>3. CASE step[t].call # c
        BY <1>3, <3>1, <3>3 DEF SlotIsSound, Owned
      <3> QED
        BY <3>2, <3>3
    <2> QED
      BY <2>1, <2>2
  <1>8. OneGrant'
    BY DEF LedgerInv, OneGrant, At, OnlyMoves
  <1> QED
    BY <1>4, <1>5, <1>6, <1>7, <1>8 DEF LedgerInv

\* The owner parks the receipt for a retry or for a poll; only the owner's own
\* leases are left to Gone.
LEMMA ParkingKeeps ==
    ASSUME LedgerInv, NEW s \in Slots, NEW c \in Calls, NEW pending \in {"retry", "async"},
           Owned(c, s), Kind[c] # "group",
           receipt' \in [Calls -> Receipt],
           /\ receipt'[c].status = "started" /\ receipt'[c].owner = NoOwner
           /\ receipt'[c].lease = "none" /\ receipt'[c].pending = pending
           /\ receipt'[c].attempts = receipt[c].attempts,
           \A e \in Calls \ {c} :
             /\ receipt'[e].status = receipt[e].status /\ receipt'[e].lease = receipt[e].lease
             /\ receipt'[e].pending = receipt[e].pending
             /\ receipt'[e].attempts = receipt[e].attempts
             /\ \/ receipt'[e].owner = receipt[e].owner
                \/ receipt[e].owner = s /\ receipt'[e].owner = Gone,
           OnlyMoves(s), SlotIsSound(s)', step'[s].pc # "granted",
           UNCHANGED <<envelope, revision, file, inflight, run, scheduled, effects,
                       answers, faults>>
    PROVE  LedgerInv'
  <1>1. TypeOK'
    BY DEF TypeOK, LedgerInv, OnlyMoves
  <1>2. ASSUME NEW e \in Calls PROVE RowIsSound(e)'
    <2>1. RowIsSound(e) /\ answers[e] \subseteq Terminal /\ NoOwner # s
      BY ToolAssumption DEF LedgerInv, TypeOK, Slots
    <2>2. CASE e = c
      BY <2>1, <2>2 DEF RowIsSound, Owned
    <2>3. CASE e # c
      BY <2>1, <2>3 DEF RowIsSound
    <2> QED
      BY <2>2, <2>3
  <1>3. ASSUME NEW e \in Calls PROVE MutationIsSound(e)'
    <2>1. MutationIsSound(e)
      BY DEF LedgerInv
    <2> QED
      BY <2>1 DEF MutationIsSound
  <1>4. ASSUME NEW t \in Slots, t # s PROVE SlotIsSound(t)'
    <2>1. /\ SlotIsSound(t) /\ step'[t] = step[t] /\ Gone # t /\ NoOwner # t
      BY <1>4, ToolAssumption DEF LedgerInv, OnlyMoves, Slots
    <2>2. CASE step[t].call = c
      BY <1>4, <2>1, <2>2 DEF SlotIsSound, Owned, Settled
    <2>3. CASE step[t].call # c
      BY <1>4, <2>1, <2>3 DEF SlotIsSound, Owned
    <2> QED
      BY <2>2, <2>3
  <1>5. OneGrant'
    BY DEF LedgerInv, OneGrant, At, OnlyMoves
  <1> QED
    BY <1>1, <1>2, <1>3, <1>4, <1>5 DEF LedgerInv

\* A lease that runs out changes neither the owner nor the outcome.
LEMMA ExpiryKeeps ==
    ASSUME LedgerInv, NEW c \in Calls,
           receipt[c].lease = "live",
           receipt' = [receipt EXCEPT ![c].lease = "expired"],
           UNCHANGED <<envelope, revision, file, inflight, step, run, scheduled, effects,
                       answers>>,
           faults' \in 0..MaxFaults
    PROVE  LedgerInv'
  <1>1. /\ receipt' \in [Calls -> Receipt]
        /\ \A e \in Calls :
            /\ receipt'[e].status = receipt[e].status /\ receipt'[e].owner = receipt[e].owner
            /\ receipt'[e].attempts = receipt[e].attempts
            /\ receipt'[e].pending = receipt[e].pending
            /\ e # c => receipt'[e].lease = receipt[e].lease
    BY DEF LedgerInv, TypeOK, Receipt
  <1>2. TypeOK'
    BY <1>1 DEF TypeOK, LedgerInv
  <1>3. ASSUME NEW e \in Calls PROVE RowIsSound(e)' /\ MutationIsSound(e)'
    <2>1. RowIsSound(e) /\ MutationIsSound(e)
      BY DEF LedgerInv
    <2>2. RowIsSound(e)'
      BY <1>1, <2>1 DEF RowIsSound
    <2>3. MutationIsSound(e)'
      BY <1>1, <2>1 DEF MutationIsSound
    <2> QED
      BY <2>2, <2>3
  <1>4. ASSUME NEW t \in Slots PROVE SlotIsSound(t)'
    <2>1. SlotIsSound(t)
      BY DEF LedgerInv
    <2> QED
      BY <1>1, <2>1 DEF SlotIsSound, Owned
  <1>5. OneGrant'
    BY DEF LedgerInv, OneGrant, At
  <1> QED
    BY <1>2, <1>3, <1>4, <1>5 DEF LedgerInv

(***************************************************************************)
(* One lemma per operation.                                                *)
(***************************************************************************)

\* reserve_tool_execution: an attempt is granted after every earlier one was counted.
LEMMA ReserveKeepsInv ==
    ASSUME LedgerInv, NEW s \in Slots, NEW c \in Calls, Reserve(s, c)
    PROVE  LedgerInv'
  <1>1. /\ TypeOK /\ RowIsSound(c) /\ receipt[c] \in Receipt /\ effects[c] \in Nat
        /\ receipt[c].attempts \in Nat /\ At(s, "idle")
        /\ UNCHANGED <<envelope, revision, file, inflight, run, scheduled, effects,
                       answers, faults>>
    BY DEF LedgerInv, TypeOK, Receipt, Reserve
  <1>2. CASE CreateReceipt(s, c)
    <2>1. \A t \in Slots : ~(At(t, "granted") /\ step[t].call = c)
      <3> SUFFICES ASSUME NEW t \in Slots, At(t, "granted"), step[t].call = c PROVE FALSE
        OBVIOUS
      <3>1. effects[c] < receipt[c].attempts
        BY DEF LedgerInv, SlotIsSound, At
      <3> QED
        BY <1>1, <1>2, <3>1 DEF CreateReceipt, RowIsSound
    <2>2. /\ receipt' = [receipt EXCEPT ![c] = Started(s, 1)]
          /\ Begin(s, c, "granted", "none")
          /\ receipt[c].status = "none"
      BY <1>2 DEF CreateReceipt
    <2>3. receipt[c].attempts = 0 /\ effects[c] <= 0
      BY <1>1, <2>2 DEF RowIsSound
    <2>4. effects[c] < 1 /\ 1 <= MaxAttempts /\ 1 \in Nat /\ 1 <= 1
          /\ receipt[c].attempts <= 1
      BY <1>1, <2>3, ToolAssumption
    <2>5. receipt[c].status \notin Terminal
      BY <2>2 DEF Terminal
    <2> QED
      BY <1>1, <2>1, <2>2, <2>3, <2>4, <2>5, GrantKeeps
  <1>3. CASE RetryRead(s, c)
    <2>1. \A t \in Slots : ~(At(t, "granted") /\ step[t].call = c)
      <3> SUFFICES ASSUME NEW t \in Slots, At(t, "granted"), step[t].call = c PROVE FALSE
        OBVIOUS
      <3>1. (Owned(c, t) /\ receipt[c].pending = "no") \/ receipt[c].status \in Settled
        BY <1>3 DEF LedgerInv, SlotIsSound, At, RetryRead
      <3> QED
        BY <1>3, <3>1 DEF RetryRead, Settled
    <2> DEFINE n == receipt[c].attempts + 1
    <2>2. /\ receipt' = [receipt EXCEPT ![c] = Started(s, n)]
          /\ Begin(s, c, "granted", "none")
          /\ receipt[c].status = "started" /\ Kind[c] = "read"
          /\ receipt[c].attempts < MaxAttempts
      BY <1>3 DEF RetryRead, MayRetry
    <2>3. effects[c] <= receipt[c].attempts
      BY <1>1 DEF RowIsSound
    <2>4. n \in Nat /\ effects[c] < n /\ n <= MaxAttempts /\ receipt[c].attempts <= n
      BY <1>1, <2>2, <2>3, ToolAssumption
    <2>5. receipt[c].status \notin Terminal
      BY <2>2 DEF Terminal
    <2> HIDE DEF n
    <2> QED
      BY <1>1, <2>1, <2>2, <2>4, <2>5, GrantKeeps
  <1>4. CASE ReuseReceipt(s, c)
    <2>1. PICK result \in Results :
            /\ Begin(s, c, "telling", result)
            /\ result \in Settled => receipt[c].status = result
      BY <1>4 DEF ReuseReceipt, Terminal, Settled, Results
    <2>2. OnlyMoves(s) /\ step'[s].pc = "telling" /\ step'[s].result = result
          /\ step'[s].call = c
      BY <1>1, <2>1, BeginMoves
    <2>3. SlotIsSound(s)' /\ receipt' = receipt
      BY <1>4, <2>1, <2>2 DEF SlotIsSound, ReuseReceipt
    <2> QED
      BY <1>1, <2>2, <2>3, MoveKeeps DEF TypeOK
  <1>5. CASE BlockedReceipt(s, c)
    <2>1. PICK pc \in {"telling", "takeover", "probe"}, result \in Results :
            /\ Begin(s, c, pc, result)
            /\ pc = "telling" => result = "blocked"
            /\ pc = "takeover" => Kind[c] = "group"
            /\ pc = "probe" => Kind[c] = "read"
      BY <1>5 DEF BlockedReceipt, Results
    <2>2. OnlyMoves(s) /\ step'[s].pc = pc /\ step'[s].result = result
          /\ step'[s].call = c
      BY <1>1, <2>1, BeginMoves
    <2>3. SlotIsSound(s)' /\ receipt' = receipt
      BY <1>5, <2>1, <2>2 DEF SlotIsSound, BlockedReceipt, Settled
    <2> QED
      BY <1>1, <2>2, <2>3, MoveKeeps DEF TypeOK
  <1> QED
    BY <1>2, <1>3, <1>4, <1>5 DEF Reserve

\* A call refused by a policy returns without an effect.
LEMMA RefuseKeepsInv ==
    ASSUME LedgerInv, NEW s \in Slots, Refuse(s)
    PROVE  LedgerInv'
  <1>1. /\ TypeOK /\ SlotIsSound(s) /\ step[s].pc = "granted"
        /\ UNCHANGED <<receipt, envelope, revision, file, inflight, run, scheduled,
                       effects, answers, faults>>
    BY DEF LedgerInv, Refuse, At
  <1>2. /\ OnlyMoves(s) /\ step'[s].pc = "returned" /\ step'[s].result = "failed"
        /\ step'[s].call = step[s].call
    BY <1>1, GotoWithMoves DEF Refuse, Results
  <1>3. SlotIsSound(s)'
    <2>1. step[s].call \in Calls /\ MutationIsSound(step[s].call)
      BY <1>1 DEF SlotIsSound, LedgerInv
    <2> QED
      BY <1>1, <1>2, <2>1 DEF SlotIsSound, MutationIsSound
  <1> QED
    BY <1>1, <1>2, <1>3, MoveKeeps DEF TypeOK

\* The attempt of the slot is used up; no other slot has one.
LEMMA CallProviderKeepsInv ==
    ASSUME LedgerInv, NEW s \in Slots, CallProvider(s)
    PROVE  LedgerInv'
  <1> DEFINE c == step[s].call
  <1>1. /\ TypeOK /\ SlotIsSound(s) /\ step[s].pc = "granted" /\ Kind[c] # "group"
        /\ effects' = [effects EXCEPT ![c] = @ + 1]
        /\ UNCHANGED <<receipt, envelope, revision, file, inflight, run, scheduled,
                       answers, faults>>
    BY DEF LedgerInv, CallProvider, At
  <1>2. c \in Calls /\ effects[c] < receipt[c].attempts
    BY <1>1 DEF SlotIsSound
  <1>3. /\ OnlyMoves(s) /\ step'[s].pc = "calling" /\ step'[s].call = c
    BY <1>1, GotoMoves DEF CallProvider
  <1>4. /\ effects' \in [Calls -> Nat] /\ effects'[c] = effects[c] + 1
        /\ \A e \in Calls \ {c} : effects'[e] = effects[e]
    BY <1>1, <1>2 DEF TypeOK
  <1> HIDE DEF c
  <1>5. TypeOK'
    BY <1>1, <1>3, <1>4 DEF TypeOK, OnlyMoves
  <1>6. ASSUME NEW e \in Calls PROVE RowIsSound(e)' /\ MutationIsSound(e)'
    <2>1. /\ RowIsSound(e) /\ MutationIsSound(e) /\ effects[e] \in Nat
          /\ receipt[e].attempts \in Nat
      BY DEF LedgerInv, TypeOK, Receipt
    <2>2. CASE e = c
      <3>1. RowIsSound(e)'
        BY <1>1, <1>2, <1>4, <2>1, <2>2 DEF RowIsSound
      <3>2. MutationIsSound(e)'
        BY <1>1, <2>1, <2>2 DEF MutationIsSound
      <3> QED
        BY <3>1, <3>2
    <2>3. CASE e # c
      BY <1>1, <1>4, <2>1, <2>3 DEF RowIsSound, MutationIsSound
    <2> QED
      BY <2>2, <2>3
  <1>7. ASSUME NEW t \in Slots PROVE SlotIsSound(t)'
    <2>1. CASE t = s
      BY <1>1, <1>2, <1>3, <2>1 DEF SlotIsSound
    <2>2. CASE t # s
      <3>1. SlotIsSound(t) /\ step'[t] = step[t]
        BY <1>3, <2>2 DEF LedgerInv, OnlyMoves
      <3>2. CASE step[t].call = c
        <4>1. step[t].pc # "granted"
          BY <1>1, <2>2, <3>2 DEF LedgerInv, OneGrant, At, c
        <4> QED
          BY <1>1, <3>1, <3>2, <4>1 DEF SlotIsSound, Owned
      <3>3. CASE step[t].call # c
        BY <1>1, <1>4, <3>1, <3>3 DEF SlotIsSound, Owned
      <3> QED
        BY <3>2, <3>3
    <2> QED
      BY <2>1, <2>2
  <1>8. OneGrant'
    BY <1>3 DEF LedgerInv, OneGrant, At, OnlyMoves
  <1> QED
    BY <1>5, <1>6, <1>7, <1>8 DEF LedgerInv

\* The provider's answer, or its loss, changes the slot only.
LEMMA ProviderReturnsKeepsInv ==
    ASSUME LedgerInv, NEW s \in Slots, ProviderReturns(s)
    PROVE  LedgerInv'
  <1>1. /\ TypeOK /\ SlotIsSound(s) /\ step[s].pc = "calling"
        /\ UNCHANGED <<receipt, envelope, revision, file, inflight, run, scheduled,
                       effects, answers, faults>>
    BY DEF LedgerInv, ProviderReturns, At
  <1>2. PICK result \in ProviderResults(step[s].call) : GotoWith(s, "returned", result)
    BY DEF ProviderReturns
  <1>3. result \in Results
    BY DEF ProviderResults, Results
  <1>4. /\ OnlyMoves(s) /\ step'[s].pc = "returned" /\ step'[s].call = step[s].call
    BY <1>1, <1>2, <1>3, GotoWithMoves
  <1>5. SlotIsSound(s)'
    BY <1>1, <1>4 DEF SlotIsSound
  <1> QED
    BY <1>1, <1>4, <1>5, MoveKeeps DEF TypeOK

\* The fence was held when the revision was written: nobody else may write.
LEMMA PrepareKeepsInv ==
    ASSUME LedgerInv, NEW s \in Slots, Prepare(s)
    PROVE  LedgerInv'
  <1> DEFINE c == step[s].call
  <1>1. /\ TypeOK /\ SlotIsSound(s) /\ step[s].pc = "granted" /\ Kind[c] = "group"
        /\ UNCHANGED <<envelope, inflight, run, scheduled, effects, answers, faults>>
    BY DEF LedgerInv, Prepare, At
  <1>2. c \in Calls /\ effects[c] < receipt[c].attempts /\ revision[c] = "none"
    BY <1>1 DEF SlotIsSound
  <1>3. CASE ~Fenced(c, s)
    BY <1>1, <1>3, DeferKeeps DEF Prepare, TypeOK
  <1>4. CASE Fenced(c, s)
    <2>1. /\ revision' = [revision EXCEPT ![c] = "prepared"]
          /\ file' = [file EXCEPT ![c].intact = TRUE]
          /\ Goto(s, "prepared") /\ receipt' = receipt
      BY <1>4 DEF Prepare
    <2>2. OnlyMoves(s) /\ step'[s].pc = "prepared" /\ step'[s].call = c
      BY <1>1, <2>1, GotoMoves
    <2>3. /\ revision' \in [Calls -> {"none", "prepared", "final"}]
          /\ revision'[c] = "prepared"
          /\ \A e \in Calls \ {c} : revision'[e] = revision[e]
      BY <1>1, <1>2, <2>1 DEF TypeOK
    <2>4. /\ file' \in [Calls -> [holds : {"old", "new", "other"}, intact : BOOLEAN,
                                   met : BOOLEAN]]
          /\ \A e \in Calls : file'[e].holds = file[e].holds /\ file'[e].met = file[e].met
          /\ \A e \in Calls \ {c} : file'[e] = file[e]
      <3>1. PICK row : row = [file[c] EXCEPT !.intact = TRUE]
        OBVIOUS
      <3>2. file' = [file EXCEPT ![c] = row]
        BY <2>1, <3>1
      <3>3. file \in [Calls -> [holds : {"old", "new", "other"}, intact : BOOLEAN,
                                met : BOOLEAN]]
        BY <1>1 DEF TypeOK
      <3>4. /\ row \in [holds : {"old", "new", "other"}, intact : BOOLEAN, met : BOOLEAN]
            /\ row.holds = file[c].holds /\ row.met = file[c].met
        BY <1>2, <3>1, <3>3
      <3> HIDE DEF c
      <3> QED
        BY <1>2, <3>2, <3>3, <3>4
    <2> HIDE DEF c
    <2>5. TypeOK'
      BY <1>1, <2>1, <2>2, <2>3, <2>4 DEF TypeOK, OnlyMoves
    <2>6. effects[c] = 0 /\ c \notin inflight
      BY <1>1, <1>2 DEF LedgerInv, MutationIsSound
    <2>7. ASSUME NEW e \in Calls PROVE RowIsSound(e)' /\ MutationIsSound(e)'
      <3>1. RowIsSound(e) /\ MutationIsSound(e)
        BY DEF LedgerInv
      <3>2. RowIsSound(e)'
        BY <1>1, <2>1, <3>1 DEF RowIsSound
      <3>3. CASE e = c
        <4>1. receipt[c].status = "started"
          BY <1>4 DEF Fenced, Owned
        <4> QED
          BY <1>1, <1>2, <2>1, <2>3, <2>4, <3>1, <3>2, <3>3, <4>1 DEF MutationIsSound
      <3>4. CASE e # c
        BY <1>1, <2>1, <2>3, <2>4, <3>1, <3>2, <3>4 DEF MutationIsSound
      <3> QED
        BY <3>3, <3>4
    <2>8. ASSUME NEW t \in Slots PROVE SlotIsSound(t)'
      <3>1. CASE t = s
        BY <1>1, <1>2, <2>1, <2>2, <2>3, <2>6, <3>1 DEF SlotIsSound
      <3>2. CASE t # s
        <4>1. SlotIsSound(t) /\ step'[t] = step[t]
          BY <2>2, <3>2 DEF LedgerInv, OnlyMoves
        <4>2. step[t].call = c => step[t].pc # "granted"
          BY <1>1, <3>2 DEF LedgerInv, OneGrant, At, c
        <4> QED
          BY <1>1, <2>1, <2>3, <2>4, <4>1, <4>2 DEF SlotIsSound, Owned
      <3> QED
        BY <3>1, <3>2
    <2>9. OneGrant'
      BY <2>2 DEF LedgerInv, OneGrant, At, OnlyMoves
    <2> QED
      BY <2>5, <2>7, <2>8, <2>9 DEF LedgerInv
  <1> QED
    BY <1>3, <1>4

\* A storage write of call c that finds the file as it was prepared.
Arrives(c) ==
    /\ file' = [file EXCEPT ![c] = Written(@)]
    /\ effects' = [effects EXCEPT ![c] = @ + 1]

\* The first and last write of the call, provided that no slot that owns the
\* mutation counts on nothing being written.
LEMMA WriteKeeps ==
    ASSUME LedgerInv, NEW c \in Calls, NEW M \in SUBSET Slots,
           Kind[c] = "group", file[c].intact, Arrives(c),
           receipt[c].status # "failed",
           inflight' \in SUBSET inflight,
           step' \in [Slots -> Step],
           \A t \in Slots \ M : step'[t] = step[t] /\ (Owned(c, t) => c \in inflight),
           \A t \in M : SlotIsSound(t)' /\ step'[t].pc # "granted",
           UNCHANGED <<receipt, envelope, revision, run, scheduled, answers, faults>>
    PROVE  LedgerInv'
  <1>1. /\ TypeOK /\ MutationIsSound(c) /\ RowIsSound(c)
        /\ effects[c] \in Nat /\ receipt[c].attempts \in Nat
    BY DEF LedgerInv, TypeOK, Receipt
  <1>2. effects[c] < receipt[c].attempts /\ revision[c] # "none"
    BY <1>1 DEF MutationIsSound
  <1>3. receipt[c].attempts <= 1
    BY <1>1 DEF RowIsSound
  <1>4. effects[c] = 0 /\ receipt[c].attempts = 1
    BY <1>1, <1>2, <1>3
  <1>5. /\ effects' \in [Calls -> Nat] /\ effects'[c] = 1
        /\ \A e \in Calls \ {c} : effects'[e] = effects[e]
    BY <1>1, <1>4 DEF TypeOK, Arrives
  <1>6. /\ file' \in [Calls -> [holds : {"old", "new", "other"}, intact : BOOLEAN,
                                 met : BOOLEAN]]
        /\ file'[c].met /\ ~file'[c].intact
        /\ \A e \in Calls \ {c} : file'[e] = file[e]
    BY <1>1 DEF TypeOK, Arrives, Written
  <1>7. TypeOK'
    BY <1>1, <1>5, <1>6 DEF TypeOK
  <1>8. ASSUME NEW e \in Calls PROVE RowIsSound(e)' /\ MutationIsSound(e)'
    <2>1. RowIsSound(e) /\ MutationIsSound(e)
      BY DEF LedgerInv
    <2>2. CASE e = c
      <3>1. RowIsSound(e)'
        BY <1>4, <1>5, <2>1, <2>2 DEF RowIsSound
      <3>2. MutationIsSound(e)'
        BY <1>2, <1>6, <2>1, <2>2 DEF MutationIsSound
      <3> QED
        BY <3>1, <3>2
    <2>3. CASE e # c
      <3>1. RowIsSound(e)'
        BY <1>5, <2>1, <2>3 DEF RowIsSound
      <3>2. MutationIsSound(e)'
        BY <1>5, <1>6, <2>1, <2>3 DEF MutationIsSound
      <3> QED
        BY <3>1, <3>2
    <2> QED
      BY <2>2, <2>3
  <1>9. ASSUME NEW t \in Slots PROVE SlotIsSound(t)'
    <2>1. CASE t \in M
      BY <2>1
    <2>2. CASE t \notin M
      <3>1. SlotIsSound(t) /\ step'[t] = step[t]
        BY <2>2 DEF LedgerInv
      <3>2. CASE step[t].call = c
        <4>1. step[t].pc # "granted"
          BY <1>2, <3>1, <3>2 DEF SlotIsSound
        <4> QED
          BY <1>6, <2>2, <3>1, <3>2, <4>1 DEF SlotIsSound, Owned
      <3>3. CASE step[t].call # c
        BY <1>5, <1>6, <3>1, <3>3 DEF SlotIsSound, Owned
      <3> QED
        BY <3>2, <3>3
    <2> QED
      BY <2>1, <2>2
  <1>10. OneGrant'
    BY DEF LedgerInv, OneGrant, At
  <1> QED
    BY <1>7, <1>8, <1>9, <1>10 DEF LedgerInv

\* The conditional write of a prepared Group mutation, under the lock of the receipt.
LEMMA ApplyKeepsInv ==
    ASSUME LedgerInv, NEW s \in Slots, Apply(s)
    PROVE  LedgerInv'
  <1> DEFINE c == step[s].call
  <1>1. /\ TypeOK /\ SlotIsSound(s) /\ step[s].pc = "prepared"
        /\ UNCHANGED <<envelope, revision, inflight, run, scheduled, answers, faults>>
    BY DEF LedgerInv, Apply, At
  <1>2. c \in Calls /\ Kind[c] = "group"
    BY <1>1 DEF SlotIsSound
  <1>3. CASE ~Fenced(c, s)
    BY <1>1, <1>3, DeferKeeps DEF Apply, TypeOK
  <1>4. CASE Fenced(c, s) /\ file[c].intact
    <2>1. Arrives(c) /\ Goto(s, "applied") /\ receipt' = receipt
      BY <1>4 DEF Apply, Arrives
    <2>2. OnlyMoves(s) /\ step'[s].pc = "applied" /\ step'[s].call = c
      BY <1>1, <2>1, GotoMoves
    <2>3. SlotIsSound(s)'
      BY <1>2, <2>2 DEF SlotIsSound
    <2>4. Owned(c, s) /\ receipt[c].status # "failed"
      BY <1>4 DEF Fenced, Owned
    <2>5. \A t \in Slots \ {s} : step'[t] = step[t] /\ (Owned(c, t) => c \in inflight)
      BY <2>2, <2>4 DEF OnlyMoves, Owned
    <2>6. step' \in [Slots -> Step] /\ inflight' \in SUBSET inflight
      BY <1>1, <2>2 DEF OnlyMoves
    <2>7. \A t \in {s} : SlotIsSound(t)' /\ step'[t].pc # "granted"
      BY <2>2, <2>3
    <2>8. /\ {s} \in SUBSET Slots
          /\ UNCHANGED <<receipt, envelope, revision, run, scheduled, answers, faults>>
      BY <1>1, <2>1
    <2> HIDE DEF c
    <2> QED
      BY <1>2, <1>4, <2>1, <2>4, <2>5, <2>6, <2>7, <2>8, WriteKeeps
  <1>5. CASE Fenced(c, s) /\ ~file[c].intact
    <2>1. /\ GotoWith(s, "returned", "failed")
          /\ UNCHANGED <<file, effects, receipt>>
      BY <1>5 DEF Apply
    <2>2. /\ OnlyMoves(s) /\ step'[s].pc = "returned" /\ step'[s].call = c
          /\ step'[s].result = "failed"
      BY <1>1, <2>1, GotoWithMoves DEF Results
    <2>3. effects[c] = 0 /\ c \notin inflight
      BY <1>1, <1>5 DEF SlotIsSound, Fenced
    <2>4. SlotIsSound(s)'
      BY <1>1, <1>2, <2>1, <2>2, <2>3 DEF SlotIsSound
    <2> QED
      BY <1>1, <2>1, <2>2, <2>4, MoveKeeps DEF TypeOK
  <1> QED
    BY <1>3, <1>4, <1>5

\* What is proven was written, by whichever invocation.
LEMMA FinalizedKeeps ==
    ASSUME LedgerInv, NEW s \in Slots, NEW c \in Calls,
           step[s].call = c, Kind[c] = "group", Proven(c), Finalized(c),
           GotoWith(s, "returned", "ok"),
           UNCHANGED <<receipt, envelope, file, inflight, run, scheduled, effects, answers,
                       faults>>
    PROVE  LedgerInv'
  <1>1. TypeOK /\ MutationIsSound(c)
    BY DEF LedgerInv
  <1>2. /\ OnlyMoves(s) /\ step'[s].pc = "returned" /\ step'[s].call = c
        /\ step'[s].result = "ok"
    BY <1>1, GotoWithMoves DEF Results
  <1>3. file[c].met /\ revision[c] # "none"
    BY <1>1 DEF MutationIsSound, Proven
  <1>4. /\ revision' \in [Calls -> {"none", "prepared", "final"}]
        /\ revision'[c] = "final"
        /\ \A e \in Calls \ {c} : revision'[e] = revision[e]
    BY <1>1 DEF TypeOK, Finalized
  <1>5. TypeOK'
    BY <1>1, <1>2, <1>4 DEF TypeOK, OnlyMoves
  <1>6. ASSUME NEW e \in Calls PROVE RowIsSound(e)' /\ MutationIsSound(e)'
    <2>1. RowIsSound(e) /\ MutationIsSound(e)
      BY DEF LedgerInv
    <2>2. RowIsSound(e)'
      BY <2>1 DEF RowIsSound
    <2>3. CASE e = c
      BY <1>3, <1>4, <2>1, <2>2, <2>3 DEF MutationIsSound
    <2>4. CASE e # c
      BY <1>4, <2>1, <2>2, <2>4 DEF MutationIsSound
    <2> QED
      BY <2>3, <2>4
  <1>7. ASSUME NEW t \in Slots PROVE SlotIsSound(t)'
    <2>1. CASE t = s
      BY <1>2, <1>3, <2>1 DEF SlotIsSound
    <2>2. CASE t # s
      <3>1. SlotIsSound(t) /\ step'[t] = step[t]
        BY <1>2, <2>2 DEF LedgerInv, OnlyMoves
      <3>2. step[t].call = c => step[t].pc # "granted"
        BY <1>3, <3>1 DEF SlotIsSound
      <3> QED
        BY <1>4, <3>1, <3>2 DEF SlotIsSound, Owned
    <2> QED
      BY <2>1, <2>2
  <1>8. OneGrant'
    BY <1>2 DEF LedgerInv, OneGrant, At, OnlyMoves
  <1> QED
    BY <1>5, <1>6, <1>7, <1>8 DEF LedgerInv

\* The revision becomes final behind the fence, and only if the file proves it.
LEMMA FinalizeKeepsInv ==
    ASSUME LedgerInv, NEW s \in Slots, Finalize(s)
    PROVE  LedgerInv'
  <1>1. /\ TypeOK /\ SlotIsSound(s) /\ step[s].pc = "applied"
        /\ UNCHANGED <<envelope, file, inflight, run, scheduled, effects, answers, faults>>
    BY DEF LedgerInv, Finalize, At
  <1>2. step[s].call \in Calls /\ Kind[step[s].call] = "group"
    BY <1>1 DEF SlotIsSound
  <1>3. CASE Fenced(step[s].call, s) /\ Proven(step[s].call)
    BY <1>1, <1>2, <1>3, FinalizedKeeps DEF Finalize
  <1>4. CASE ~(Fenced(step[s].call, s) /\ Proven(step[s].call))
    BY <1>1, <1>4, DeferKeeps DEF Finalize, TypeOK
  <1> QED
    BY <1>3, <1>4

\* A mutation that was never prepared was never sent to the storage.
LEMMA ReconcileOperationKeepsInv ==
    ASSUME LedgerInv, NEW s \in Slots, ReconcileOperation(s)
    PROVE  LedgerInv'
  <1> DEFINE c == step[s].call
  <1>1. /\ TypeOK /\ SlotIsSound(s) /\ step[s].pc = "reconcile"
        /\ UNCHANGED <<envelope, file, inflight, run, scheduled, effects, answers, faults>>
    BY DEF LedgerInv, ReconcileOperation, At
  <1>2. c \in Calls /\ Kind[c] = "group"
    BY <1>1 DEF SlotIsSound
  <1>3. CASE ~Fenced(c, s)
    BY <1>1, <1>3, DeferKeeps DEF ReconcileOperation, TypeOK
  <1>4. CASE Fenced(c, s) /\ Proven(c)
    BY <1>1, <1>2, <1>4, FinalizedKeeps DEF ReconcileOperation
  <1>5. CASE Fenced(c, s) /\ ~Proven(c)
    <2> DEFINE result == IF revision[c] = "none" THEN "failed" ELSE "unknown"
    <2>1. /\ GotoWith(s, "returned", result)
          /\ UNCHANGED <<revision, receipt>>
      BY <1>5 DEF ReconcileOperation
    <2>2. /\ OnlyMoves(s) /\ step'[s].pc = "returned" /\ step'[s].call = c
          /\ step'[s].result = result
      BY <1>1, <2>1, GotoWithMoves DEF Results
    <2>3. result = "failed" => effects[c] = 0 /\ c \notin inflight
      BY <1>2 DEF LedgerInv, MutationIsSound
    <2>4. SlotIsSound(s)'
      BY <1>1, <1>2, <2>1, <2>2, <2>3 DEF SlotIsSound
    <2> QED
      BY <1>1, <2>1, <2>2, <2>4, MoveKeeps DEF TypeOK
  <1> QED
    BY <1>3, <1>4, <1>5

\* The write that is on its way belongs to a receipt left to Gone.
LEMMA LoseWriteKeepsInv ==
    ASSUME LedgerInv, NEW s \in Slots, LoseWrite(s)
    PROVE  LedgerInv'
  <1> DEFINE c == step[s].call
  <1>1. /\ TypeOK /\ SlotIsSound(s) /\ step[s].pc = "prepared" /\ Owned(c, s)
        /\ Defer(s, receipt) /\ inflight' = inflight \cup {c}
        /\ UNCHANGED <<envelope, revision, file, run, scheduled, effects, answers>>
        /\ faults' \in 0..MaxFaults /\ receipt \in [Calls -> Receipt]
    BY ToolAssumption DEF LedgerInv, LoseWrite, At, Fenced, TypeOK
  <1>2. c \in Calls /\ Kind[c] = "group" /\ revision[c] # "none"
    BY <1>1 DEF SlotIsSound
  <1>3. /\ OnlyMoves(s)
        /\ step'[s].pc = "idle"
        /\ receipt' \in [Calls -> Receipt]
        /\ \A e \in Calls :
             /\ receipt'[e].status = receipt[e].status /\ receipt'[e].lease = receipt[e].lease
             /\ receipt'[e].attempts = receipt[e].attempts
             /\ receipt'[e].pending = receipt[e].pending
             /\ receipt[e].owner # s => receipt'[e] = receipt[e]
             /\ receipt[e].owner = s => receipt'[e].owner = Gone
    BY <1>1, DeferMoves
  <1>4. receipt'[c].status = "started" /\ receipt'[c].owner = Gone
    BY <1>1, <1>2, <1>3 DEF Owned
  <1> HIDE DEF c
  <1>5. TypeOK'
    BY <1>1, <1>2, <1>3 DEF TypeOK, OnlyMoves
  <1>6. ASSUME NEW e \in Calls PROVE RowIsSound(e)' /\ MutationIsSound(e)'
    <2>1. RowIsSound(e) /\ MutationIsSound(e) /\ NoOwner # s
      BY ToolAssumption DEF LedgerInv, Slots
    <2>2. RowIsSound(e)'
      BY <1>1, <1>3, <2>1 DEF RowIsSound
    <2>3. MutationIsSound(e)'
      BY <1>1, <1>2, <1>3, <1>4, <2>1 DEF MutationIsSound
    <2> QED
      BY <2>2, <2>3
  <1>7. ASSUME NEW t \in Slots PROVE SlotIsSound(t)'
    <2>1. CASE t = s
      BY <1>3, <2>1 DEF SlotIsSound
    <2>2. CASE t # s
      <3>1. SlotIsSound(t) /\ step'[t] = step[t] /\ Gone # t
        BY <1>3, <2>2, ToolAssumption DEF LedgerInv, OnlyMoves, Slots
      <3>2. CASE step[t].call = c
        BY <1>1, <1>2, <1>3, <1>4, <3>1, <3>2 DEF SlotIsSound, Owned
      <3>3. CASE step[t].call # c
        BY <1>1, <1>3, <2>2, <3>1, <3>3 DEF SlotIsSound, Owned
      <3> QED
        BY <3>2, <3>3
    <2> QED
      BY <2>1, <2>2
  <1>8. OneGrant'
    BY <1>3 DEF LedgerInv, OneGrant, At, OnlyMoves
  <1> QED
    BY <1>5, <1>6, <1>7, <1>8 DEF LedgerInv

\* A storage write that outlived its process lands only on the prepared version.
LEMMA LateWriteKeepsInv ==
    ASSUME LedgerInv, NEW c \in Calls, LateWrite(c)
    PROVE  LedgerInv'
  <1>1. /\ TypeOK /\ MutationIsSound(c) /\ c \in inflight /\ inflight' = inflight \ {c}
        /\ UNCHANGED <<receipt, envelope, revision, step, run, scheduled, answers, faults>>
    BY DEF LedgerInv, LateWrite
  <1>2. Kind[c] = "group" /\ receipt[c].status # "failed"
    BY <1>1 DEF MutationIsSound
  <1>3. CASE file[c].intact
    <2>1. Arrives(c)
      BY <1>3 DEF LateWrite, Arrives
    <2>2. step' \in [Slots -> Step] /\ inflight' \in SUBSET inflight /\ {} \in SUBSET Slots
      BY <1>1 DEF TypeOK
    <2>3. /\ \A t \in Slots \ {} : step'[t] = step[t] /\ (Owned(c, t) => c \in inflight)
          /\ \A t \in {} : SlotIsSound(t)' /\ step'[t].pc # "granted"
      BY <1>1
    <2>4. UNCHANGED <<receipt, envelope, revision, run, scheduled, answers, faults>>
      BY <1>1
    <2> QED
      BY <1>2, <1>3, <2>1, <2>2, <2>3, <2>4, WriteKeeps
  <1>4. CASE ~file[c].intact
    <2>1. UNCHANGED <<file, effects>>
      BY <1>4 DEF LateWrite
    <2>2. TypeOK'
      BY <1>1, <2>1 DEF TypeOK
    <2>3. ASSUME NEW e \in Calls PROVE RowIsSound(e)' /\ MutationIsSound(e)'
      BY <1>1, <2>1 DEF LedgerInv, RowIsSound, MutationIsSound
    <2>4. ASSUME NEW t \in Slots PROVE SlotIsSound(t)'
      <3>1. SlotIsSound(t)
        BY DEF LedgerInv
      <3> QED
        BY <1>1, <2>1, <3>1 DEF SlotIsSound, Owned
    <2>5. OneGrant'
      BY <1>1 DEF LedgerInv, OneGrant, At
    <2> QED
      BY <2>2, <2>3, <2>4, <2>5 DEF LedgerInv
  <1> QED
    BY <1>3, <1>4

\* Another writer of the file ends the prepared version.
LEMMA OtherWriteKeepsInv ==
    ASSUME LedgerInv, NEW c \in Calls, OtherWrite(c)
    PROVE  LedgerInv'
  <1>1. /\ TypeOK
        /\ file' = [file EXCEPT ![c].holds = "other", ![c].intact = FALSE]
        /\ UNCHANGED <<receipt, envelope, revision, inflight, step, run, scheduled,
                       effects, answers, faults>>
    BY DEF LedgerInv, OtherWrite
  <1>2. /\ file' \in [Calls -> [holds : {"old", "new", "other"}, intact : BOOLEAN,
                                 met : BOOLEAN]]
        /\ file'[c].holds = "other" /\ ~file'[c].intact
        /\ \A e \in Calls : file'[e].met = file[e].met
        /\ \A e \in Calls \ {c} : file'[e] = file[e]
    BY <1>1 DEF TypeOK
  <1>3. TypeOK'
    BY <1>1, <1>2 DEF TypeOK
  <1>4. ASSUME NEW e \in Calls PROVE RowIsSound(e)' /\ MutationIsSound(e)'
    <2>1. RowIsSound(e) /\ MutationIsSound(e)
      BY DEF LedgerInv
    <2>2. RowIsSound(e)'
      BY <1>1, <2>1 DEF RowIsSound
    <2>3. MutationIsSound(e)'
      BY <1>1, <1>2, <2>1 DEF MutationIsSound
    <2> QED
      BY <2>2, <2>3
  <1>5. ASSUME NEW t \in Slots PROVE SlotIsSound(t)'
    <2>1. SlotIsSound(t)
      BY DEF LedgerInv
    <2> QED
      BY <1>1, <1>2, <2>1 DEF SlotIsSound, Owned
  <1>6. OneGrant'
    BY <1>1 DEF LedgerInv, OneGrant, At
  <1> QED
    BY <1>3, <1>4, <1>5, <1>6 DEF LedgerInv

\* A takeover that meets a settled receipt tells what it says.
LEMMA FindSettledKeepsInv ==
    ASSUME LedgerInv, NEW s \in Slots, FindSettled(s)
    PROVE  LedgerInv'
  <1> DEFINE c == step[s].call
  <1>1. /\ TypeOK /\ SlotIsSound(s) /\ step[s].pc = "takeover"
        /\ receipt[c].status \in Terminal
        /\ GotoWith(s, "telling", receipt[c].status)
        /\ UNCHANGED <<receipt, envelope, revision, file, inflight, run, scheduled,
                       effects, answers, faults>>
    BY DEF LedgerInv, FindSettled, At, Tell
  <1>2. /\ OnlyMoves(s) /\ step'[s].pc = "telling" /\ step'[s].call = c
        /\ step'[s].result = receipt[c].status
    BY <1>1, GotoWithMoves DEF Results, Terminal
  <1>3. SlotIsSound(s)'
    BY <1>1, <1>2 DEF SlotIsSound
  <1> QED
    BY <1>1, <1>2, <1>3, MoveKeeps DEF TypeOK

\* A takeover by the tool step makes a new owner, and counts no attempt.
LEMMA TakeoverKeepsInv ==
    ASSUME LedgerInv, NEW s \in Slots, Takeover(s)
    PROVE  LedgerInv'
  <1> DEFINE c == step[s].call
  <1>1. /\ TypeOK /\ SlotIsSound(s) /\ step[s].pc = "takeover" /\ step[s] \in Step
        /\ receipt[c].status = "started"
        /\ UNCHANGED <<envelope, revision, file, inflight, run, scheduled, effects,
                       answers, faults>>
    BY DEF LedgerInv, Takeover, At, TypeOK
  <1>2. c \in Calls /\ Kind[c] = "group"
    BY <1>1 DEF SlotIsSound
  <1>3. CASE Defer(s, receipt)
    BY <1>1, <1>3, DeferKeeps DEF TypeOK
  <1>4. CASE /\ receipt' = [receipt EXCEPT ![c] = Started(s, receipt[c].attempts)]
             /\ step' = [step EXCEPT ![s].pc = "reconcile", ![s].role = "recovery"]
    <2>1. OnlyMoves(s) /\ step'[s].pc = "reconcile" /\ step'[s].call = c
      BY <1>1, <1>4 DEF OnlyMoves, TypeOK, Step
    <2> QED
      BY <1>1, <1>2, <1>4, <2>1, TakeoverKeeps
  <1> QED
    BY <1>3, <1>4 DEF Takeover

\* The product reconciler takes a Group receipt over in the same way.
LEMMA ProductTakeoverKeepsInv ==
    ASSUME LedgerInv, NEW s \in Slots, NEW c \in Calls, ProductTakeover(s, c)
    PROVE  LedgerInv'
  <1> DEFINE row == [pc |-> "reconcile", call |-> c, result |-> "none", role |-> "product"]
  <1>1. /\ TypeOK /\ Kind[c] = "group"
        /\ receipt[c].status \in {"started", "unknown"}
        /\ receipt' = [receipt EXCEPT ![c] = Started(s, receipt[c].attempts)]
        /\ step' = [step EXCEPT ![s] = row]
        /\ UNCHANGED <<envelope, revision, file, inflight, run, scheduled, effects,
                       answers, faults>>
    BY DEF LedgerInv, ProductTakeover
  <1>2. row \in Step /\ row.pc = "reconcile" /\ row.call = c
    BY DEF Step, Results
  <1> HIDE DEF row
  <1>3. OnlyMoves(s) /\ step'[s].pc = "reconcile" /\ step'[s].call = c
    BY <1>1, <1>2 DEF OnlyMoves, TypeOK
  <1> QED
    BY <1>1, <1>3, TakeoverKeeps

\* Only the result of a mutation that was written is archived.
LEMMA ArchiveKeepsInv ==
    ASSUME LedgerInv, NEW s \in Slots, Archive(s)
    PROVE  LedgerInv'
  <1> DEFINE c == step[s].call
  <1>1. /\ TypeOK /\ SlotIsSound(s) /\ step[s].pc = "returned" /\ step[s].result = "ok"
        /\ UNCHANGED <<receipt, revision, file, inflight, run, scheduled, effects,
                       answers, faults>>
    BY DEF LedgerInv, Archive, At
  <1>2. c \in Calls /\ (Kind[c] = "group" => file[c].met)
    BY <1>1 DEF SlotIsSound
  <1>3. CASE envelope' = envelope \cup {c} /\ Goto(s, "archived")
    <2>1. /\ OnlyMoves(s) /\ step'[s].pc = "archived" /\ step'[s].call = c
          /\ step'[s].result = "ok"
      BY <1>1, <1>3, GotoMoves
    <2>2. TypeOK'
      BY <1>1, <1>2, <1>3, <2>1 DEF TypeOK, OnlyMoves
    <2> HIDE DEF c
    <2>3. ASSUME NEW e \in Calls PROVE RowIsSound(e)' /\ MutationIsSound(e)'
      <3>1. RowIsSound(e) /\ MutationIsSound(e)
        BY DEF LedgerInv
      <3>2. RowIsSound(e)'
        BY <1>1, <3>1 DEF RowIsSound
      <3>3. MutationIsSound(e)'
        BY <1>1, <1>2, <1>3, <3>1 DEF MutationIsSound
      <3> QED
        BY <3>2, <3>3
    <2>4. ASSUME NEW t \in Slots PROVE SlotIsSound(t)'
      <3>1. CASE t = s
        BY <1>1, <1>2, <2>1, <3>1 DEF SlotIsSound
      <3>2. CASE t # s
        <4>1. SlotIsSound(t) /\ step'[t] = step[t]
          BY <2>1, <3>2 DEF LedgerInv, OnlyMoves
        <4> QED
          BY <1>1, <4>1 DEF SlotIsSound, Owned
      <3> QED
        BY <3>1, <3>2
    <2>5. OneGrant'
      BY <2>1 DEF LedgerInv, OneGrant, At, OnlyMoves
    <2> QED
      BY <2>2, <2>3, <2>4, <2>5 DEF LedgerInv
  <1>4. CASE /\ UNCHANGED envelope
             /\ GotoWith(s, "archived", IF Kind[c] = "read" THEN "failed" ELSE "ok")
    <2> DEFINE result == IF Kind[c] = "read" THEN "failed" ELSE "ok"
    <2>1. result \in Results /\ (Kind[c] = "group" => result = "ok")
      BY DEF Results
    <2>2. /\ OnlyMoves(s) /\ step'[s].pc = "archived" /\ step'[s].call = c
          /\ step'[s].result = result
      BY <1>1, <1>4, <2>1, GotoWithMoves
    <2> HIDE DEF result
    <2>3. SlotIsSound(s)'
      BY <1>1, <1>2, <2>1, <2>2 DEF SlotIsSound
    <2> QED
      BY <1>1, <1>4, <2>2, <2>3, MoveKeeps DEF TypeOK
  <1> QED
    BY <1>3, <1>4 DEF Archive

\* The receipts that settling call c closes: its own and, when the operation has
\* ended, the pending ones of the operation.
ClosedWith(c, result) ==
    {e \in Calls :
        \/ e = c
        \/ /\ result \in {"ok", "op_failed"}
           /\ e \in Operation(c)
           /\ receipt[e].status = "started" /\ receipt[e].pending = "async"}

\* What a settlement leaves of the receipt, and of the envelope it closes with it.
LEMMA SettlementFacts ==
    ASSUME TypeOK, NEW c \in Calls, NEW result \in Results
    PROVE  /\ StatusOf(result) \in Terminal
           /\ Settlement(c, result) \in [Calls -> Receipt]
           /\ \A e \in ClosedWith(c, result) :
                /\ Settlement(c, result)[e].status = StatusOf(result)
                /\ Settlement(c, result)[e].owner = NoOwner
                /\ Settlement(c, result)[e].lease = "none"
                /\ Settlement(c, result)[e].pending = "no"
                /\ Settlement(c, result)[e].attempts = receipt[e].attempts
           /\ \A e \in Calls \ ClosedWith(c, result) : Settlement(c, result)[e] = receipt[e]
  <1> DEFINE status == StatusOf(result)
             f == Settlement(c, result)
  <1>1. status \in Terminal
    BY DEF StatusOf, Terminal
  <1> HIDE DEF status
  <1>2. f = [e \in Calls |-> IF e \in ClosedWith(c, result)
                             THEN Closed(receipt[e], status) ELSE receipt[e]]
    BY DEF Settlement, ClosedWith, status
  <1> HIDE DEF f
  <1>3. ASSUME NEW e \in Calls
        PROVE  /\ Closed(receipt[e], status) \in Receipt
               /\ Closed(receipt[e], status).status = status
               /\ Closed(receipt[e], status).owner = NoOwner
               /\ Closed(receipt[e], status).lease = "none"
               /\ Closed(receipt[e], status).pending = "no"
               /\ Closed(receipt[e], status).attempts = receipt[e].attempts
    <2>1. receipt[e] \in Receipt
      BY DEF TypeOK
    <2> QED
      BY <1>1, <2>1 DEF Closed, Receipt
  <1>4. f \in [Calls -> Receipt]
    BY <1>2, <1>3 DEF TypeOK
  <1>5. ASSUME NEW e \in ClosedWith(c, result)
        PROVE  /\ f[e].status = status /\ f[e].owner = NoOwner
               /\ f[e].lease = "none" /\ f[e].pending = "no"
               /\ f[e].attempts = receipt[e].attempts
    <2>1. e \in Calls
      BY DEF ClosedWith
    <2>2. f[e] = Closed(receipt[e], status)
      BY <1>2, <2>1
    <2> QED
      BY <1>3, <2>1, <2>2
  <1>6. ASSUME NEW e \in Calls \ ClosedWith(c, result) PROVE f[e] = receipt[e]
    BY <1>2
  <1> QED
    BY <1>1, <1>4, <1>5, <1>6 DEF f, status

\* An owner that settles has the truth about its mutation.
LEMMA SettlementIsSound ==
    ASSUME LedgerInv, NEW s \in Slots, NEW c \in Calls, NEW result \in Results,
           step[s].call = c, step[s].result = result,
           step[s].pc \in {"returned", "archived"}, Owned(c, s),
           NEW e \in ClosedWith(c, result)
    PROVE  /\ e \in Calls
           /\ receipt[e].status \in {"started", "unknown"}
           /\ Kind[e] = "group" =>
                /\ StatusOf(result) = "succeeded" => file[e].met
                /\ StatusOf(result) = "failed" => effects[e] = 0 /\ e \notin inflight
           /\ \A t \in Slots \ {s} :
                At(t, "granted") /\ step[t].call = e =>
                    Kind[e] = "group" \/ StatusOf(result) \in Settled
  <1>1. e \in Calls /\ SlotIsSound(s) /\ RowIsSound(e)
    BY DEF ClosedWith, LedgerInv
  <1>2. receipt[e].status = "started"
    BY DEF ClosedWith, Owned
  <1>3. ASSUME Kind[e] = "group"
        PROVE  /\ StatusOf(result) = "succeeded" => file[e].met
               /\ StatusOf(result) = "failed" => effects[e] = 0 /\ e \notin inflight
    <2>1. e = c
      BY <1>1, <1>3 DEF ClosedWith, RowIsSound
    <2>2. result \in {"ok", "failed", "unknown"}
      BY <1>1, <1>3, <2>1 DEF SlotIsSound
    <2>3. /\ result = "ok" => file[e].met
          /\ result = "failed" => effects[e] = 0 /\ e \notin inflight
      BY <1>1, <1>3, <2>1 DEF SlotIsSound
    <2> QED
      BY <2>2, <2>3 DEF StatusOf
  <1>4. ASSUME NEW t \in Slots \ {s}, At(t, "granted"), step[t].call = e
        PROVE  Kind[e] = "group"
    <2>1. SlotIsSound(t)
      BY DEF LedgerInv
    <2>2. \/ Kind[e] = "group"
          \/ Owned(e, t) /\ receipt[e].pending = "no"
          \/ receipt[e].status \in Settled
      BY <1>4, <2>1 DEF SlotIsSound, At
    <2> QED
      BY <1>2, <2>2 DEF Settled, Owned, ClosedWith
  <1> QED
    BY <1>1, <1>2, <1>3, <1>4

\* _settle_outcome, for every class of result and for a receipt owned by another.
LEMMA SettleKeepsInv ==
    ASSUME LedgerInv, NEW s \in Slots, Settle(s)
    PROVE  LedgerInv'
  <1> DEFINE c == step[s].call
             result == step[s].result
  <1>1. /\ TypeOK /\ SlotIsSound(s) /\ step[s].pc \in {"returned", "archived"}
        /\ result \in Results /\ c \in Calls /\ receipt \in [Calls -> Receipt]
        /\ receipt[c] \in Receipt
        /\ UNCHANGED <<envelope, revision, file, inflight, run, scheduled, effects,
                       answers, faults>>
    BY DEF LedgerInv, Settle, SlotIsSound, TypeOK, Step
  <1>2. CASE ~Owned(c, s)
    <2>1. CASE Defer(s, receipt)
      BY <1>1, <2>1, DeferKeeps DEF TypeOK
    <2>2. CASE /\ UNCHANGED receipt
               /\ \/ Tell(s, "error")
                  \/ receipt[c].status = StatusOf(result) /\ Tell(s, receipt[c].status)
      <3>1. PICK told \in Results :
              /\ GotoWith(s, "telling", told)
              /\ told \in Settled => receipt[c].status = told
        BY <2>2 DEF Tell, Results, Settled, StatusOf
      <3>2. /\ OnlyMoves(s) /\ step'[s].pc = "telling" /\ step'[s].call = c
            /\ step'[s].result = told
        BY <1>1, <3>1, GotoWithMoves
      <3>3. SlotIsSound(s)'
        BY <1>1, <2>2, <3>1, <3>2 DEF SlotIsSound
      <3> QED
        BY <1>1, <2>2, <3>2, <3>3, MoveKeeps DEF TypeOK
    <2> QED
      BY <1>2, <2>1, <2>2 DEF Settle, Disowned
  <1>3. CASE Owned(c, s) /\ result = "pending"
    <2>1. receipt' = [receipt EXCEPT ![c] = Parked(receipt[c], "async")] /\ Tell(s, "pending")
      BY <1>3 DEF Settle
    <2>2. /\ OnlyMoves(s) /\ step'[s].pc = "telling" /\ step'[s].call = c
          /\ step'[s].result = "pending"
      BY <1>1, <2>1, GotoWithMoves DEF Tell, Results
    <2>3. Kind[c] # "group"
      BY <1>1, <1>3 DEF SlotIsSound
    <2>4. SlotIsSound(s)'
      BY <1>1, <2>2 DEF SlotIsSound, Settled
    <2>5. /\ receipt' \in [Calls -> Receipt]
          /\ receipt'[c].status = "started" /\ receipt'[c].owner = NoOwner
          /\ receipt'[c].lease = "none" /\ receipt'[c].pending = "async"
          /\ receipt'[c].attempts = receipt[c].attempts
          /\ \A e \in Calls \ {c} : receipt'[e] = receipt[e]
      BY <1>1, <1>3, <2>1 DEF Parked, Receipt, Owned
    <2> HIDE DEF c
    <2> QED
      BY <1>1, <1>3, <2>2, <2>3, <2>4, <2>5, ParkingKeeps
  <1>4. CASE Owned(c, s) /\ result = "retryable" /\ MayRetry(receipt[c])
    <2> DEFINE f == [receipt EXCEPT ![c] = Parked(receipt[c], "retry")]
    <2>1. Defer(s, f)
      BY <1>4 DEF Settle
    <2>2. /\ f \in [Calls -> Receipt]
          /\ f[c].status = "started" /\ f[c].owner = NoOwner
          /\ f[c].lease = "none" /\ f[c].pending = "retry"
          /\ f[c].attempts = receipt[c].attempts
          /\ \A e \in Calls \ {c} : f[e] = receipt[e]
      BY <1>1, <1>4 DEF Parked, Receipt, Owned
    <2> HIDE DEF f
    <2>3. /\ OnlyMoves(s)
          /\ step'[s].pc = "idle"
          /\ receipt' \in [Calls -> Receipt]
          /\ \A e \in Calls :
                /\ receipt'[e].status = f[e].status /\ receipt'[e].lease = f[e].lease
                /\ receipt'[e].attempts = f[e].attempts
                /\ receipt'[e].pending = f[e].pending
                /\ f[e].owner # s => receipt'[e] = f[e]
                /\ f[e].owner = s => receipt'[e].owner = Gone
      BY <1>1, <2>1, <2>2, DeferMoves
    <2>4. Kind[c] # "group" /\ NoOwner # s
      BY <1>1, <1>4, ToolAssumption DEF SlotIsSound, Slots
    <2>5. SlotIsSound(s)'
      BY <2>3 DEF SlotIsSound
    <2> HIDE DEF c
    <2>6. /\ receipt'[c].status = "started" /\ receipt'[c].owner = NoOwner
          /\ receipt'[c].lease = "none" /\ receipt'[c].pending = "retry"
          /\ receipt'[c].attempts = receipt[c].attempts
      BY <1>1, <2>2, <2>3, <2>4
    <2>7. \A e \in Calls \ {c} :
             /\ receipt'[e].status = receipt[e].status /\ receipt'[e].lease = receipt[e].lease
             /\ receipt'[e].pending = receipt[e].pending
             /\ receipt'[e].attempts = receipt[e].attempts
             /\ \/ receipt'[e].owner = receipt[e].owner
                \/ receipt[e].owner = s /\ receipt'[e].owner = Gone
      BY <2>2, <2>3
    <2> QED
      BY <1>1, <1>4, <2>3, <2>4, <2>5, <2>6, <2>7, ParkingKeeps
  <1>5. CASE /\ Owned(c, s) /\ result # "pending"
             /\ ~(result = "retryable" /\ MayRetry(receipt[c]))
    <2> DEFINE E == ClosedWith(c, result)
               status == StatusOf(result)
               f == Settlement(c, result)
    <2>1. /\ status \in Terminal
          /\ f \in [Calls -> Receipt]
          /\ \A e \in E :
               /\ f[e].status = status /\ f[e].owner = NoOwner
               /\ f[e].lease = "none" /\ f[e].pending = "no"
               /\ f[e].attempts = receipt[e].attempts
          /\ \A e \in Calls \ E : f[e] = receipt[e]
      BY <1>1, SettlementFacts
    <2>2. \A e \in E :
               /\ receipt[e].status \in {"started", "unknown"}
               /\ Kind[e] = "group" =>
                    /\ status = "succeeded" => file[e].met
                    /\ status = "failed" => effects[e] = 0 /\ e \notin inflight
               /\ \A t \in Slots \ {s} :
                    At(t, "granted") /\ step[t].call = e =>
                        Kind[e] = "group" \/ status \in Settled
      BY <1>1, <1>5, SettlementIsSound
    <2>3. c \in E /\ E \in SUBSET Calls /\ {s} \in SUBSET Slots
      BY <1>1 DEF ClosedWith
    <2>4. CASE Defer(s, f)
      <3> HIDE DEF f, status, E
      <3>1. /\ OnlyMoves(s)
            /\ step'[s].pc = "idle"
            /\ receipt' \in [Calls -> Receipt]
            /\ \A e \in Calls :
                /\ receipt'[e].status = f[e].status /\ receipt'[e].lease = f[e].lease
                /\ receipt'[e].attempts = f[e].attempts
                /\ receipt'[e].pending = f[e].pending
                /\ f[e].owner # s => receipt'[e] = f[e]
                /\ f[e].owner = s => receipt'[e].owner = Gone
        BY <1>1, <2>1, <2>4, DeferMoves
      <3>2. Closing(E, status, {s})
        <4>1. NoOwner # s
          BY ToolAssumption DEF Slots
        <4> QED
          BY <2>1, <2>3, <3>1, <4>1 DEF Closing
      <3>3. \A t \in {s} : SlotIsSound(t)' /\ step'[t].pc # "granted"
        BY <3>1 DEF SlotIsSound
      <3>4. step' \in [Slots -> Step] /\ \A t \in Slots \ {s} : step'[t] = step[t]
        BY <3>1 DEF OnlyMoves
      <3> QED
        BY <1>1, <2>1, <2>2, <2>3, <3>2, <3>3, <3>4, ClosingKeeps
    <2>5. CASE receipt' = f /\ Tell(s, status)
      <3>1. status \in Results
        BY <2>1 DEF Terminal, Results
      <3> HIDE DEF f, status, E
      <3>2. /\ OnlyMoves(s) /\ step'[s].pc = "telling" /\ step'[s].call = c
            /\ step'[s].result = status
        BY <1>1, <2>5, <3>1, GotoWithMoves DEF Tell
      <3>3. Closing(E, status, {s})
        BY <2>1, <2>3, <2>5 DEF Closing
      <3>4. receipt'[c].status = status
        BY <2>1, <2>3, <2>5
      <3>5. \A t \in {s} : SlotIsSound(t)' /\ step'[t].pc # "granted"
        BY <1>1, <3>2, <3>4 DEF SlotIsSound
      <3>6. step' \in [Slots -> Step] /\ \A t \in Slots \ {s} : step'[t] = step[t]
        BY <3>2 DEF OnlyMoves
      <3> QED
        BY <1>1, <2>1, <2>2, <2>3, <3>3, <3>5, <3>6, ClosingKeeps
    <2> QED
      BY <1>5, <2>4, <2>5 DEF Settle
  <1> QED
    BY <1>2, <1>3, <1>4, <1>5

\* A settlement that fails leaves the receipt started.
LEMMA SettleErrorKeepsInv ==
    ASSUME LedgerInv, NEW s \in Slots, SettleError(s)
    PROVE  LedgerInv'
  <1>1. /\ TypeOK /\ SlotIsSound(s) /\ step[s].pc \in {"returned", "archived"}
        /\ faults' \in 0..MaxFaults
        /\ UNCHANGED <<envelope, revision, file, inflight, run, scheduled, effects, answers>>
    BY ToolAssumption DEF LedgerInv, SettleError, TypeOK
  <1>2. CASE Defer(s, receipt)
    BY <1>1, <1>2, DeferKeeps
  <1>3. CASE Tell(s, "error") /\ UNCHANGED receipt
    <2>1. /\ OnlyMoves(s) /\ step'[s].pc = "telling" /\ step'[s].call = step[s].call
          /\ step'[s].result = "error"
      BY <1>1, <1>3, GotoWithMoves DEF Tell, Results
    <2>2. SlotIsSound(s)'
      BY <1>1, <2>1 DEF SlotIsSound, Settled
    <2> QED
      BY <1>1, <1>3, <2>1, <2>2, MoveKeeps
  <1> QED
    BY <1>2, <1>3 DEF SettleError

\* Closing the receipt of one call.
LEMMA CloseOne ==
    ASSUME TypeOK, NEW c \in Calls, NEW status \in Terminal, NEW M,
           receipt' = [receipt EXCEPT ![c] = Closed(@, status)]
    PROVE  Closing({c}, status, M) /\ receipt'[c].status = status
  <1> DEFINE row == Closed(receipt[c], status)
  <1>1. receipt[c] \in Receipt
    BY DEF TypeOK
  <1>2. /\ row \in Receipt
        /\ row.status = status /\ row.owner = NoOwner /\ row.lease = "none"
        /\ row.pending = "no" /\ row.attempts = receipt[c].attempts
    BY <1>1 DEF Closed, Receipt
  <1>3. receipt' = [receipt EXCEPT ![c] = row]
    OBVIOUS
  <1> HIDE DEF row
  <1> QED
    BY <1>2, <1>3 DEF Closing, TypeOK

\* An envelope is found only where a call succeeded.
LEMMA ReconcileEnvelopeKeepsInv ==
    ASSUME LedgerInv, NEW c \in Calls, ReconcileEnvelope(c)
    PROVE  LedgerInv'
  <1>1. /\ TypeOK /\ MutationIsSound(c) /\ receipt[c].status = "started" /\ c \in envelope
        /\ receipt' = [receipt EXCEPT ![c] = Closed(@, "succeeded")]
        /\ UNCHANGED <<envelope, revision, file, inflight, step, run, scheduled, effects,
                       answers, faults>>
    BY DEF LedgerInv, ReconcileEnvelope, Recoverable
  <1>2. Closing({c}, "succeeded", {}) /\ "succeeded" \in Terminal
    BY <1>1, CloseOne DEF Terminal
  <1>3. Kind[c] = "group" => file[c].met
    BY <1>1 DEF MutationIsSound
  <1>4. \A e \in {c} :
           /\ receipt[e].status \in {"started", "unknown"}
           /\ Kind[e] = "group" =>
                /\ "succeeded" = "succeeded" => file[e].met
                /\ "succeeded" = "failed" => effects[e] = 0 /\ e \notin inflight
           /\ \A t \in Slots \ {} :
                At(t, "granted") /\ step[t].call = e =>
                    Kind[e] = "group" \/ "succeeded" \in Settled
    BY <1>1, <1>3 DEF Settled
  <1>5. /\ step' \in [Slots -> Step]
        /\ \A t \in Slots \ {} : step'[t] = step[t]
        /\ \A t \in {} : SlotIsSound(t)' /\ step'[t].pc # "granted"
        /\ {c} \in SUBSET Calls /\ {} \in SUBSET Slots
        /\ UNCHANGED <<envelope, revision, file, inflight, run, scheduled, effects,
                       answers, faults>>
    BY <1>1 DEF TypeOK
  <1> QED
    BY <1>2, <1>4, <1>5, ClosingKeeps

\* A reader closes the receipt of its own call and says so.
LEMMA CloseAndTellKeeps ==
    ASSUME LedgerInv, NEW s \in Slots, NEW c \in Calls, NEW status \in Settled,
           step[s].call = c, Kind[c] = "read", receipt[c].status = "started",
           receipt' = [receipt EXCEPT ![c] = Closed(@, status)],
           Tell(s, status),
           UNCHANGED <<envelope, revision, file, inflight, run, scheduled, effects,
                       answers, faults>>
    PROVE  LedgerInv'
  <1>1. TypeOK /\ status \in Terminal /\ status \in Results
    BY DEF LedgerInv, Settled, Terminal, Results
  <1>2. Closing({c}, status, {s}) /\ receipt'[c].status = status
    BY <1>1, CloseOne
  <1>3. /\ OnlyMoves(s) /\ step'[s].pc = "telling" /\ step'[s].call = c
        /\ step'[s].result = status
    BY <1>1, GotoWithMoves DEF Tell
  <1>4. \A t \in {s} : SlotIsSound(t)' /\ step'[t].pc # "granted"
    BY <1>2, <1>3 DEF SlotIsSound
  <1>5. step' \in [Slots -> Step] /\ \A t \in Slots \ {s} : step'[t] = step[t]
    BY <1>3 DEF OnlyMoves
  <1>6. \A e \in {c} :
           /\ receipt[e].status \in {"started", "unknown"}
           /\ Kind[e] = "group" =>
                /\ status = "succeeded" => file[e].met
                /\ status = "failed" => effects[e] = 0 /\ e \notin inflight
           /\ \A t \in Slots \ {s} :
                At(t, "granted") /\ step[t].call = e =>
                    Kind[e] = "group" \/ status \in Settled
    OBVIOUS
  <1>7. {c} \in SUBSET Calls /\ {s} \in SUBSET Slots
    OBVIOUS
  <1> QED
    BY <1>1, <1>2, <1>4, <1>5, <1>6, <1>7, ClosingKeeps

\* A redelivered read tells the envelope of its lost attempt, or goes on without it.
LEMMA ProbeKeepsInv ==
    ASSUME LedgerInv, NEW s \in Slots, Probe(s)
    PROVE  LedgerInv'
  <1> DEFINE c == step[s].call
  <1>1. /\ TypeOK /\ SlotIsSound(s) /\ step[s].pc = "probe"
        /\ UNCHANGED <<envelope, revision, file, inflight, run, scheduled, effects,
                       answers, faults>>
    BY DEF LedgerInv, Probe, At
  <1>2. c \in Calls /\ Kind[c] = "read"
    BY <1>1 DEF SlotIsSound
  <1>3. CASE /\ Recoverable(c)
             /\ receipt' = [receipt EXCEPT ![c] = Closed(@, "succeeded")]
             /\ Tell(s, "succeeded")
    <2>1. receipt[c].status = "started" /\ "succeeded" \in Settled
      BY <1>3 DEF Recoverable, Settled
    <2> QED
      BY <1>1, <1>2, <1>3, <2>1, CloseAndTellKeeps
  <1>4. CASE Defer(s, receipt)
    BY <1>1, <1>4, DeferKeeps DEF TypeOK
  <1>5. CASE Goto(s, "unavailable") /\ UNCHANGED receipt
    <2>1. OnlyMoves(s) /\ step'[s].pc = "unavailable" /\ step'[s].call = c
      BY <1>1, <1>5, GotoMoves
    <2>2. SlotIsSound(s)'
      BY <1>2, <2>1 DEF SlotIsSound
    <2> QED
      BY <1>1, <1>5, <2>1, <2>2, MoveKeeps DEF TypeOK
  <1> QED
    BY <1>3, <1>4, <1>5 DEF Probe

\* A lost read is closed as failed only if nobody has settled it in the meantime.
LEMMA MarkUnavailableKeepsInv ==
    ASSUME LedgerInv, NEW s \in Slots, MarkUnavailable(s)
    PROVE  LedgerInv'
  <1> DEFINE c == step[s].call
  <1>1. /\ TypeOK /\ SlotIsSound(s) /\ step[s].pc = "unavailable"
        /\ UNCHANGED <<envelope, revision, file, inflight, run, scheduled, effects,
                       answers, faults>>
    BY DEF LedgerInv, MarkUnavailable, At
  <1>2. c \in Calls /\ Kind[c] = "read"
    BY <1>1 DEF SlotIsSound
  <1>3. CASE receipt[c].status \in Terminal /\ Tell(s, receipt[c].status) /\ UNCHANGED receipt
    <2>1. /\ OnlyMoves(s) /\ step'[s].pc = "telling" /\ step'[s].call = c
          /\ step'[s].result = receipt[c].status
      BY <1>1, <1>3, GotoWithMoves DEF Tell, Terminal, Results
    <2>2. SlotIsSound(s)'
      BY <1>2, <1>3, <2>1 DEF SlotIsSound
    <2> QED
      BY <1>1, <1>3, <2>1, <2>2, MoveKeeps DEF TypeOK
  <1>4. CASE /\ receipt[c].status = "started"
             /\ receipt' = [receipt EXCEPT ![c] = Closed(@, "failed")]
             /\ Tell(s, "failed")
    <2>1. "failed" \in Settled
      BY DEF Settled
    <2> QED
      BY <1>1, <1>2, <1>4, <2>1, CloseAndTellKeeps
  <1>5. CASE Defer(s, receipt)
    BY <1>1, <1>5, DeferKeeps DEF TypeOK
  <1> QED
    BY <1>3, <1>4, <1>5 DEF MarkUnavailable

\* Only the answer of a settled receipt is told for good.
LEMMA ReportKeepsInv ==
    ASSUME LedgerInv, NEW s \in Slots, Report(s)
    PROVE  LedgerInv'
  <1> DEFINE c == step[s].call
             result == step[s].result
  <1>1. /\ TypeOK /\ SlotIsSound(s) /\ step[s].pc = "telling"
        /\ Defer(s, receipt) /\ receipt \in [Calls -> Receipt]
        /\ answers' = [answers EXCEPT ![c] = @ \cup ({result} \cap Terminal)]
        /\ UNCHANGED <<envelope, revision, file, inflight, scheduled, effects, faults>>
    BY DEF LedgerInv, Report, At, TypeOK
  <1>2. c \in Calls /\ (result \in Settled => receipt[c].status = result)
    BY <1>1 DEF SlotIsSound
  <1>3. PICK conclusion \in Conclusions(c, result) :
          run' = [run EXCEPT ![c] = IF @ = "open" THEN conclusion ELSE @]
    BY DEF Report
  <1>4. conclusion \in RunStates
    BY DEF Conclusions, RunStates
  <1>5. run' \in [Calls -> RunStates]
    BY <1>1, <1>2, <1>3, <1>4 DEF TypeOK
  <1>6. /\ answers' \in [Calls -> SUBSET Terminal]
        /\ \A e \in Calls : \A a \in answers'[e] :
              a \in answers[e] \/ (e = c /\ a = result /\ a \in Terminal)
    BY <1>1, <1>2 DEF TypeOK
  <1>7. /\ OnlyMoves(s)
        /\ step'[s].pc = "idle"
        /\ receipt' \in [Calls -> Receipt]
        /\ \A e \in Calls :
             /\ receipt'[e].status = receipt[e].status /\ receipt'[e].lease = receipt[e].lease
             /\ receipt'[e].attempts = receipt[e].attempts
             /\ receipt'[e].pending = receipt[e].pending
             /\ receipt[e].owner # s => receipt'[e] = receipt[e]
             /\ receipt[e].owner = s => receipt'[e].owner = Gone
    BY <1>1, DeferMoves
  <1> HIDE DEF c, result
  <1>8. TypeOK'
    BY <1>1, <1>5, <1>6, <1>7 DEF TypeOK, OnlyMoves
  <1>9. ASSUME NEW e \in Calls PROVE RowIsSound(e)' /\ MutationIsSound(e)'
    <2>1. RowIsSound(e) /\ MutationIsSound(e) /\ NoOwner # s
      BY ToolAssumption DEF LedgerInv, Slots
    <2>2. MutationIsSound(e)'
      BY <1>1, <1>7, <2>1 DEF MutationIsSound
    <2>3. \A a \in answers'[e] \ {"unknown"} : receipt'[e].status = a
      BY <1>2, <1>6, <1>7, <2>1 DEF RowIsSound, Settled, Terminal
    <2>4. RowIsSound(e)'
      BY <1>1, <1>5, <1>7, <2>1, <2>3 DEF RowIsSound
    <2> QED
      BY <2>2, <2>4
  <1>10. ASSUME NEW t \in Slots PROVE SlotIsSound(t)'
    <2>1. CASE t = s
      BY <1>7, <2>1 DEF SlotIsSound
    <2>2. CASE t # s
      <3>1. SlotIsSound(t) /\ step'[t] = step[t] /\ Gone \notin Slots
        BY <1>7, <2>2, ToolAssumption DEF LedgerInv, OnlyMoves, Slots
      <3> QED
        BY <1>1, <1>7, <2>2, <3>1 DEF SlotIsSound, Owned
    <2> QED
      BY <2>1, <2>2
  <1>11. OneGrant'
    BY <1>7 DEF LedgerInv, OneGrant, At, OnlyMoves
  <1> QED
    BY <1>8, <1>9, <1>10, <1>11 DEF LedgerInv

\* The Run goes on; receipts and slots stay.
LEMMA RunMovesKeeps ==
    ASSUME LedgerInv, run' \in [Calls -> RunStates], scheduled' \in SUBSET Calls,
           UNCHANGED <<receipt, envelope, revision, file, inflight, step, effects,
                       answers, faults>>
    PROVE  LedgerInv'
  <1>1. TypeOK'
    BY DEF LedgerInv, TypeOK
  <1>2. ASSUME NEW c \in Calls PROVE RowIsSound(c)' /\ MutationIsSound(c)'
    <2>1. RowIsSound(c) /\ MutationIsSound(c)
      BY DEF LedgerInv
    <2> QED
      BY <2>1 DEF RowIsSound, MutationIsSound
  <1>3. ASSUME NEW t \in Slots PROVE SlotIsSound(t)'
    <2>1. SlotIsSound(t)
      BY DEF LedgerInv
    <2> QED
      BY <2>1 DEF SlotIsSound, Owned
  <1>4. OneGrant'
    BY DEF LedgerInv, OneGrant, At
  <1> QED
    BY <1>1, <1>2, <1>3, <1>4 DEF LedgerInv

\* Poll timer and user move the Run between its waits and leave every receipt alone.
LEMMA RunStepKeepsInv ==
    ASSUME LedgerInv, NEW c \in Calls, SchedulePoll(c) \/ ResumePoll(c) \/ UserResumes(c)
    PROVE  LedgerInv'
  <1>1. run \in [Calls -> RunStates] /\ scheduled \in SUBSET Calls
    BY DEF LedgerInv, TypeOK
  <1>2. CASE SchedulePoll(c)
    BY <1>1, <1>2, RunMovesKeeps DEF SchedulePoll
  <1>3. CASE ResumePoll(c)
    <2>1. run' \in [Calls -> RunStates]
      BY <1>1, <1>3 DEF ResumePoll, RunStates
    <2> QED
      BY <1>1, <1>3, <2>1, RunMovesKeeps DEF ResumePoll
  <1>4. CASE UserResumes(c)
    <2>1. run' \in [Calls -> RunStates]
      BY <1>1, <1>4 DEF UserResumes, RunStates
    <2> QED
      BY <1>1, <1>4, <2>1, RunMovesKeeps DEF UserResumes
  <1> QED
    BY <1>2, <1>3, <1>4

\* A user decides the unknown outcome of a write.
LEMMA UserConfirmsKeepsInv ==
    ASSUME LedgerInv, NEW c \in Calls, NEW status \in Settled, UserConfirms(c, status)
    PROVE  LedgerInv'
  <1>1. /\ TypeOK /\ receipt[c].status = "unknown" /\ Kind[c] = "write"
        /\ receipt' = [receipt EXCEPT ![c] = Closed(@, status)]
        /\ UNCHANGED <<envelope, revision, file, inflight, step, run, scheduled, effects,
                       answers, faults>>
    BY DEF LedgerInv, UserConfirms
  <1>2. Closing({c}, status, {}) /\ status \in Terminal
    <2>1. status \in Terminal
      BY DEF Terminal, Settled
    <2>2. TypeOK /\ receipt' = [receipt EXCEPT ![c] = Closed(@, status)]
      BY <1>1
    <2>3. Closing({c}, status, {})
      BY <2>1, <2>2, CloseOne
    <2> QED
      BY <2>1, <2>3
  <1>3. \A e \in {c} :
           /\ receipt[e].status \in {"started", "unknown"}
           /\ Kind[e] = "group" =>
                /\ status = "succeeded" => file[e].met
                /\ status = "failed" => effects[e] = 0 /\ e \notin inflight
           /\ \A t \in Slots \ {} :
                At(t, "granted") /\ step[t].call = e =>
                    Kind[e] = "group" \/ status \in Settled
    BY <1>1
  <1>4. /\ step' \in [Slots -> Step]
        /\ \A t \in Slots \ {} : step'[t] = step[t]
        /\ \A t \in {} : SlotIsSound(t)' /\ step'[t].pc # "granted"
        /\ {c} \in SUBSET Calls /\ {} \in SUBSET Slots
        /\ UNCHANGED <<envelope, revision, file, inflight, run, scheduled, effects,
                       answers, faults>>
    BY <1>1 DEF TypeOK
  <1> QED
    BY <1>2, <1>3, <1>4, ClosingKeeps

(***************************************************************************)
(* Every step, and the theorems.                                           *)
(***************************************************************************)

\* No call has a receipt at first.
LEMMA InitLedgerInv == Init => LedgerInv
  <1> SUFFICES ASSUME Init PROVE LedgerInv
    OBVIOUS
  <1>1. Idle \in Step /\ Idle.pc = "idle"
    BY DEF Idle, Step, Results
  <1>2. TypeOK
    <2>1. receipt \in [Calls -> Receipt]
      BY ToolAssumption DEF Init, Receipt
    <2>2. run \in [Calls -> RunStates]
      BY DEF Init, RunStates
    <2>3. faults \in 0..MaxFaults
      BY ToolAssumption DEF Init
    <2> QED
      BY <1>1, <2>1, <2>2, <2>3 DEF Init, TypeOK
  <1>3. ASSUME NEW c \in Calls PROVE RowIsSound(c) /\ MutationIsSound(c)
    <2>1. /\ receipt[c].status = "none" /\ receipt[c].owner = NoOwner
          /\ receipt[c].lease = "none" /\ receipt[c].pending = "no"
          /\ receipt[c].attempts = 0 /\ effects[c] = 0 /\ answers[c] = {}
          /\ run[c] \in {"open", "unborn"} /\ c \notin inflight /\ c \notin envelope
          /\ revision[c] = "none" /\ ~file[c].intact /\ file[c].holds = "old"
      BY DEF Init
    <2>2. RowIsSound(c)
      BY <2>1, ToolAssumption DEF RowIsSound
    <2>3. MutationIsSound(c)
      BY <2>1 DEF MutationIsSound
    <2> QED
      BY <2>2, <2>3
  <1>4. ASSUME NEW s \in Slots PROVE SlotIsSound(s)
    BY <1>1 DEF Init, SlotIsSound
  <1>5. OneGrant
    BY <1>1 DEF Init, OneGrant, At
  <1> QED
    BY <1>2, <1>3, <1>4, <1>5 DEF LedgerInv

\* Every step keeps the invariant.
LEMMA NextKeepsInv == LedgerInv /\ [Next]_vars => LedgerInv'
  <1> SUFFICES ASSUME LedgerInv, [Next]_vars PROVE LedgerInv'
    OBVIOUS
  <1>1. CASE UNCHANGED vars
    <2>1. /\ run \in [Calls -> RunStates] /\ scheduled \in SUBSET Calls
          /\ UNCHANGED <<receipt, envelope, revision, file, inflight, step, effects,
                         answers, faults>>
          /\ run' = run /\ scheduled' = scheduled
      BY <1>1 DEF vars, LedgerInv, TypeOK
    <2> QED
      BY <2>1, RunMovesKeeps
  <1>2. ASSUME NEW s \in Workers, NEW c \in Calls, Reserve(s, c) PROVE LedgerInv'
    BY <1>2, ReserveKeepsInv DEF Slots
  <1>3. ASSUME NEW s \in Reconcilers, NEW c \in Calls, ProductTakeover(s, c) PROVE LedgerInv'
    BY <1>3, ProductTakeoverKeepsInv DEF Slots
  <1>4. ASSUME NEW s \in Slots, Execute(s) PROVE LedgerInv'
    BY <1>4, RefuseKeepsInv, CallProviderKeepsInv, ProviderReturnsKeepsInv, PrepareKeepsInv,
       ApplyKeepsInv, FinalizeKeepsInv DEF Execute
  <1>5. ASSUME NEW s \in Slots, Recover(s) PROVE LedgerInv'
    BY <1>5, FindSettledKeepsInv, TakeoverKeepsInv, ReconcileOperationKeepsInv, ProbeKeepsInv,
       MarkUnavailableKeepsInv DEF Recover
  <1>6. ASSUME NEW s \in Slots, Finish(s) PROVE LedgerInv'
    BY <1>6, ArchiveKeepsInv, SettleKeepsInv, ReportKeepsInv DEF Finish
  <1>7. ASSUME NEW s \in Slots, Crash(s) PROVE LedgerInv'
    <2>1. faults' \in 0..MaxFaults /\ Defer(s, receipt)
      BY <1>7, ToolAssumption DEF Crash, LedgerInv, TypeOK
    <2> QED
      BY <1>7, <2>1, DeferKeeps DEF Crash
  <1>8. ASSUME NEW s \in Slots, LoseWrite(s) \/ SettleError(s) PROVE LedgerInv'
    BY <1>8, LoseWriteKeepsInv, SettleErrorKeepsInv
  <1>9. ASSUME NEW c \in Calls, Expire(c) \/ Stall(c) PROVE LedgerInv'
    <2>1. faults' \in 0..MaxFaults
      BY <1>9, ToolAssumption DEF Expire, Stall, LedgerInv, TypeOK
    <2> QED
      BY <1>9, <2>1, ExpiryKeeps DEF Expire, Stall
  <1>10. ASSUME NEW c \in Calls, LateWrite(c) \/ OtherWrite(c) PROVE LedgerInv'
    BY <1>10, LateWriteKeepsInv, OtherWriteKeepsInv
  <1>11. ASSUME NEW c \in Calls,
                ReconcileEnvelope(c) \/ SchedulePoll(c) \/ ResumePoll(c) \/ UserResumes(c)
         PROVE  LedgerInv'
    BY <1>11, ReconcileEnvelopeKeepsInv, RunStepKeepsInv
  <1>12. ASSUME NEW c \in Calls, NEW status \in {"succeeded", "failed"},
                UserConfirms(c, status)
         PROVE  LedgerInv'
    BY <1>12, UserConfirmsKeepsInv DEF Settled
  <1> QED
    BY <1>1, <1>2, <1>3, <1>4, <1>5, <1>6, <1>7, <1>8, <1>9, <1>10, <1>11, <1>12 DEF Next

\* The strengthened invariant of the ledger holds in every reachable state.
THEOREM LedgerInvariant == Spec => []LedgerInv
  BY InitLedgerInv, NextKeepsInv, PTL DEF Spec

\* Every variable of the ledger keeps its type.
THEOREM LedgerTypes == Spec => []TypeOK
  <1>1. LedgerInv => TypeOK
    BY DEF LedgerInv
  <1> QED
    BY <1>1, LedgerInvariant, PTL

\* However steps crash, stall and are delivered again, a call with side effects
\* reaches its provider or the workspace at most once, and a safe read is tried
\* at most SAFE_READ_MAX_ATTEMPTS times.
THEOREM EffectsAreNotRepeated == Spec => []NoRepeatedEffect
  <1>1. LedgerInv => NoRepeatedEffect
    <2> SUFFICES ASSUME LedgerInv, NEW c \in Calls
                 PROVE  effects[c] <= IF Kind[c] = "read" THEN MaxAttempts ELSE 1
      BY DEF NoRepeatedEffect
    <2>1. RowIsSound(c) /\ effects[c] \in Nat /\ receipt[c].attempts \in Nat
      BY DEF LedgerInv, TypeOK, Receipt
    <2> QED
      BY <2>1, ToolAssumption DEF RowIsSound
  <1> QED
    BY <1>1, LedgerInvariant, PTL

\* What the model was told about a call stays what its receipt says.
THEOREM AnswersAgreeWithReceipts == Spec => []AnswersAgree
  <1>1. LedgerInv => AnswersAgree
    BY DEF LedgerInv, AnswersAgree, RowIsSound
  <1> QED
    BY <1>1, LedgerInvariant, PTL

\* A Group mutation recorded as succeeded reached its file, and one recorded as
\* failed never arrives, not even as a late storage write.
THEOREM WorkspaceReceiptsAreTrue == Spec => []WorkspaceReceiptIsTrue
  <1>1. LedgerInv => WorkspaceReceiptIsTrue
    BY DEF LedgerInv, WorkspaceReceiptIsTrue, MutationIsSound
  <1> QED
    BY <1>1, LedgerInvariant, PTL

\* A settled receipt has no owner and no lease.
LEMMA SettledIsFree ==
    ASSUME LedgerInv, NEW c \in Calls, receipt[c].status \in Settled
    PROVE  /\ receipt[c].owner \notin Slots /\ receipt[c].lease = "none"
           /\ receipt[c].pending = "no"
  BY ToolAssumption DEF LedgerInv, RowIsSound, Settled, Slots

\* An invocation that ends leaves a settled receipt alone.
LEMMA DeferKeepsSettled ==
    ASSUME LedgerInv, NEW c \in Calls, receipt[c].status \in Settled,
           NEW s \in Slots, NEW f, f[c] = receipt[c], Defer(s, f)
    PROVE  receipt'[c] = receipt[c]
  BY SettledIsFree DEF Defer, Abandoned

\* A settled receipt is changed by no step.
LEMMA SettledStays ==
    ASSUME LedgerInv, [Next]_vars, NEW c \in Calls, receipt[c].status \in Settled
    PROVE  receipt'[c] = receipt[c]
  <1>1. /\ receipt[c].status \notin {"none", "started", "unknown"}
        /\ receipt[c].lease = "none"
        /\ receipt \in [Calls -> Receipt]
    BY SettledIsFree DEF Settled, LedgerInv, TypeOK
  <1>2. CASE UNCHANGED vars
    BY <1>2 DEF vars
  <1>3. ASSUME NEW s \in Workers, NEW e \in Calls, Reserve(s, e)
        PROVE  receipt'[c] = receipt[c]
    BY <1>1, <1>3 DEF Reserve, CreateReceipt, RetryRead, ReuseReceipt, BlockedReceipt
  <1>4. ASSUME NEW s \in Reconcilers, NEW e \in Calls, ProductTakeover(s, e)
        PROVE  receipt'[c] = receipt[c]
    BY <1>1, <1>4 DEF ProductTakeover
  <1>5. ASSUME NEW s \in Slots, Execute(s) PROVE receipt'[c] = receipt[c]
    BY <1>5, DeferKeepsSettled
       DEF Execute, Refuse, CallProvider, ProviderReturns, Prepare, Apply, Finalize
  <1>6. ASSUME NEW s \in Slots, Recover(s) PROVE receipt'[c] = receipt[c]
    <2>1. CASE FindSettled(s) \/ ReconcileOperation(s)
      BY <2>1, <1>6, DeferKeepsSettled DEF FindSettled, ReconcileOperation
    <2>2. CASE Takeover(s)
      BY <1>1, <1>6, <2>2, DeferKeepsSettled DEF Takeover
    <2>3. CASE Probe(s)
      BY <1>1, <1>6, <2>3, DeferKeepsSettled DEF Probe, Recoverable
    <2>4. CASE MarkUnavailable(s)
      BY <1>1, <1>6, <2>4, DeferKeepsSettled DEF MarkUnavailable
    <2> QED
      BY <1>6, <2>1, <2>2, <2>3, <2>4 DEF Recover
  <1>7. ASSUME NEW s \in Slots, Finish(s) PROVE receipt'[c] = receipt[c]
    <2>1. CASE Archive(s) \/ Report(s)
      BY <1>7, <2>1, DeferKeepsSettled DEF Archive, Report
    <2>2. CASE Settle(s) /\ ~Owned(step[s].call, s)
      BY <1>7, <2>2, DeferKeepsSettled DEF Settle, Disowned
    <2>3. CASE Settle(s) /\ Owned(step[s].call, s)
      <3>1. c # step[s].call
        BY <1>1, <2>3 DEF Owned
      <3>2. [receipt EXCEPT ![step[s].call] = Parked(receipt[step[s].call], "retry")][c]
              = receipt[c]
        BY <1>1, <3>1
      <3>3. [receipt EXCEPT ![step[s].call] = Parked(receipt[step[s].call], "async")][c]
              = receipt[c]
        BY <1>1, <3>1
      <3>4. Settlement(step[s].call, step[s].result)[c] = receipt[c]
        BY <1>1, <3>1 DEF Settlement
      <3> QED
        BY <1>7, <2>3, <3>2, <3>3, <3>4, DeferKeepsSettled DEF Settle
    <2> QED
      BY <1>7, <2>1, <2>2, <2>3 DEF Finish
  <1>8. ASSUME NEW s \in Slots, LoseWrite(s) \/ SettleError(s) \/ Crash(s)
        PROVE  receipt'[c] = receipt[c]
    BY <1>8, DeferKeepsSettled DEF LoseWrite, SettleError, Crash
  <1>9. ASSUME NEW e \in Calls,
               LateWrite(e) \/ OtherWrite(e) \/ Expire(e) \/ Stall(e)
        PROVE  receipt'[c] = receipt[c]
    BY <1>1, <1>9 DEF LateWrite, OtherWrite, Expire, Stall
  <1>10. ASSUME NEW e \in Calls,
               ReconcileEnvelope(e) \/ SchedulePoll(e) \/ ResumePoll(e) \/ UserResumes(e)
         PROVE  receipt'[c] = receipt[c]
    BY <1>1, <1>10 DEF ReconcileEnvelope, Recoverable, SchedulePoll, ResumePoll, UserResumes
  <1>11. ASSUME NEW e \in Calls, NEW status \in {"succeeded", "failed"},
                UserConfirms(e, status)
         PROVE  receipt'[c] = receipt[c]
    BY <1>1, <1>11 DEF UserConfirms
  <1> QED
    BY <1>2, <1>3, <1>4, <1>5, <1>6, <1>7, <1>8, <1>9, <1>10, <1>11 DEF Next

\* A receipt that has succeeded or failed is final: not a late settler, a
\* reconciler, an expired lease or a redelivery ever changes it.
THEOREM SettledReceiptsAreFinal == Spec => SettledReceiptIsFinal
  <1>1. LedgerInv /\ [Next]_vars =>
          [\A c \in Calls :
              receipt[c].status \in {"succeeded", "failed"} => receipt'[c] = receipt[c]]_vars
    BY SettledStays DEF Settled
  <1> QED
    BY <1>1, LedgerInvariant, PTL DEF Spec, SettledReceiptIsFinal

=============================================================================

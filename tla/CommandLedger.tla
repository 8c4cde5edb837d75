---------------------------- MODULE CommandLedger ----------------------------
(***************************************************************************)
(* What the Command Inbox promises, without claims, leases, attempts and   *)
(* error codes: every Command is submitted once and settled once, and a    *)
(* scheduling lane is a lock that Runs take while their start is open.     *)
(***************************************************************************)
CONSTANTS Commands, Runs, RunOf, Kind, Lanes, LaneOf

VARIABLES
    outcome,    \* "absent", "open", "applied" or "rejected" for each Command
    holders     \* the Runs that hold each lane

vars == <<outcome, holders>>

Init ==
    /\ outcome = [c \in Commands |-> "absent"]
    /\ holders = [l \in Lanes |-> {}]

Submit(c) ==
    /\ outcome[c] = "absent"
    /\ outcome' = [outcome EXCEPT ![c] = "open"]
    /\ UNCHANGED holders

Return(R) == holders' = [l \in Lanes |-> holders[l] \ R]

Admit(c) ==
    LET r == RunOf[c] IN
    /\ Kind[c] = "start"
    /\ outcome[c] = "open"
    /\ LaneOf[r] \in Lanes
    /\ holders[LaneOf[r]] = {}
    /\ holders' = [holders EXCEPT ![LaneOf[r]] = {r}]
    /\ UNCHANGED outcome

\* Settling a Command may give the lane of its Run back.
Settle(c, verdict) ==
    /\ outcome[c] = "open"
    /\ outcome' = [outcome EXCEPT ![c] = verdict]
    /\ UNCHANGED holders \/ Return({RunOf[c]})

Leave(R) ==
    /\ Return(R)
    /\ UNCHANGED outcome

Next ==
    \/ \E c \in Commands :
          Submit(c) \/ Admit(c) \/ \E v \in {"applied", "rejected"} : Settle(c, v)
    \/ \E R \in SUBSET Runs : Leave(R)

Spec == Init /\ [][Next]_vars
=============================================================================

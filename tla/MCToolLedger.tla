----------------------------- MODULE MCToolLedger -----------------------------
EXTENDS ToolLedger, TLC

CONSTANTS read, write, group, poll, w1, w2, k1

\* One call of each kind may be proposed; the write may return a pending
\* operation, which the poll call then asks about.
MCKind ==
    (read :> "read") @@ (write :> "write") @@ (group :> "group") @@ (poll :> "read")

MCPoll ==
    [c \in Calls |-> IF c = write THEN poll ELSE NoCall]
=============================================================================

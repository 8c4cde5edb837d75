---------------------------- MODULE MCTriggerQueue ----------------------------
EXTENDS TriggerQueue, TLC

CONSTANTS a1, t1

\* Occurrences of one Trigger; the last may be a meeting.
MCOccurrences == 1..2
OneTrigger == [o \in Occurrences |-> t1]
OneAgent == [t \in Triggers |-> a1]
=============================================================================

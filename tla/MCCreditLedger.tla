---------------------------- MODULE MCCreditLedger ----------------------------
EXTENDS CreditLedger, TLC

CONSTANTS r1, r2, q1, t1
=============================================================================

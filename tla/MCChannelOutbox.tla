---------------------------- MODULE MCChannelOutbox ----------------------------
EXTENDS ChannelOutbox, TLC

CONSTANTS w1, w2
=============================================================================

-------------------------- MODULE MCChannelsPerKey --------------------------
EXTENDS ChannelsPerKey, TLC
CONSTANTS a1, a2, a3, b1, A, B

MCkeymaker == [ch \in Channels |-> IF ch = b1 THEN B ELSE A]
=============================================================================

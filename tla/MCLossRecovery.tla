--------------------------- MODULE MCLossRecovery ---------------------------
EXTENDS LossRecovery

\* maxPacketSize is 2 units; a short packet is 1.
MCPacketSizes == {1, 2}

\* PTO is 2 units; the loss threshold is below it, or above it after an RTT
\* spike.
MCLossThreshs == {1, 3}

\* The loss threshold of a steady RTT, below PTO.
MCLossThreshLow == {1}
=============================================================================

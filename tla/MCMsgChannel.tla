---------------------------- MODULE MCMsgChannel ----------------------------
EXTENDS MsgChannel

\* Three non-empty messages: one fits a packet, one needs two packets, one
\* overflows the receive window.
MCMsgLens == <<1, 2, 3>>

\* An empty message between two non-empty ones.
MCMsgLensEmpty == <<1, 0, 1>>
=============================================================================

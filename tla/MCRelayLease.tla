--------------------------- MODULE MCRelayLease ----------------------------
\* A small instance of RelayLease.
EXTENDS RelayLease, TLC

CONSTANTS r1, r2
=============================================================================

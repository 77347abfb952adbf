--------------------------- MODULE MCOutboxRelay ---------------------------
\* Small instances of OutboxRelay.
EXTENDS OutboxRelay, TLC

CONSTANTS r1, r2

OneBucket == [e \in Event |-> 1]
TwoBuckets == [e \in Event |-> 1 + (e % 2)]

RelaySymmetry == Permutations({r1, r2})
=============================================================================

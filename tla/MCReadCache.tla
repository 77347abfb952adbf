---------------------------- MODULE MCReadCache ----------------------------
\* Small instances of ReadCache.
EXTENDS ReadCache, TLC

CONSTANTS p1, p2, c1, c2, t1, t2, t3, t4

\* Nonces are alike, and so are the two halves of OneEach.
Halves == {[x \in {p1, p2, c1, c2} |-> x],
           (p1 :> p2) @@ (p2 :> p1) @@ (c1 :> c2) @@ (c2 :> c1)}
TokenSymmetry == Permutations(Token)
Symmetry == {f @@ g : f \in TokenSymmetry, g \in Halves}

\* One caller in each process; both read the same representation, or not.
OneEach == (c1 :> p1) @@ (c2 :> p2)
SameCodec == (p1 :> 1) @@ (p2 :> 1)
TwoCodecs == (p1 :> 1) @@ (p2 :> 2)

\* Two callers in one process.
Together == (c1 :> p1) @@ (c2 :> p1)
OneCodec == (p1 :> 1)
=============================================================================

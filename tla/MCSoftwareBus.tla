--------------------------- MODULE MCSoftwareBus ---------------------------
EXTENDS SoftwareBus, TLC

CONSTANTS a1, a2, t1, t2, p1, p2, m1, m2, b1, b2, b3

\* t1 serves a pipe; t2, of another application, sends, and may have one too.
TwoApps == t1 :> a1 @@ t2 :> a2
Depths == [p \in Pipes |-> IF p = p1 THEN 2 ELSE 1]
Creators == [p \in Pipes |-> IF p = p1 THEN t1 ELSE t2]
Symmetric == Permutations(Buffers) \union Permutations(Msgs)
============================================================================

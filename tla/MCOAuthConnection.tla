--------------------------- MODULE MCOAuthConnection ---------------------------
\* Instances of OAuthConnection: two worker processes, and one.
EXTENDS OAuthConnection

CONSTANTS r1, r2, r3, p1, p2

TwoProcesses == [r \in Request |-> IF r = r3 THEN p2 ELSE p1]
OneProcess   == [r \in Request |-> p1]
=============================================================================

----------------------------- MODULE MCWriteLock -----------------------------
EXTENDS WriteLock, TLC

CONSTANTS h1, h2, h3, h4, p1, p2, p3

\* Two handles of one process beside two other processes.
Shared == h1 :> p1 @@ h2 :> p1 @@ h3 :> p2 @@ h4 :> p3
=============================================================================

----------------------------- MODULE MCAtomicWrite -----------------------------
\* Two files: one that exists, replaced twice and removed, one that is created.
EXTENDS AtomicWrite, TLC

CONSTANTS fa, fb, t1, t2, t3, w1, w2, w3, w4

MCTarget == w1 :> fa @@ w2 :> fa @@ w3 :> fb @@ w4 :> fa
MCText == w1 :> t2 @@ w2 :> t3 @@ w3 :> t2 @@ w4 :> Absent
MCFirst == fa :> t1 @@ fb :> Absent
=============================================================================

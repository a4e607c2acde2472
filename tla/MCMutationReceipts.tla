-------------------------- MODULE MCMutationReceipts --------------------------
EXTENDS MutationReceipts, TLC

Symmetric == Permutations(Calls) \cup Permutations(Keys) \cup Permutations(Requests)
=============================================================================

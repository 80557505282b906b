-------------------------- MODULE MCGovernanceStore --------------------------
(* GovernanceStore on a small instance: the threads are interchangeable.    *)
EXTENDS GovernanceStore, TLC

ThreadSymmetry == Permutations(Threads)
=============================================================================

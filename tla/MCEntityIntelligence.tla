------------------------ MODULE MCEntityIntelligence ------------------------
(* EntityIntelligence on a small instance: interchangeable threads, one     *)
(* article that makes a claim and one that tries to give instructions.      *)
EXTENDS EntityIntelligence, TLC
CONSTANTS k1

MCArticles == {[supports |-> {k1}, hit |-> FALSE], [supports |-> {}, hit |-> TRUE]}
ThreadSymmetry == Permutations(Threads)
=============================================================================

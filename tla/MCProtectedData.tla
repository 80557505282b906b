--------------------------- MODULE MCProtectedData ---------------------------
(* Two threads that use one artifact, and a name outside the directory.     *)
EXTENDS ProtectedData, TLC
CONSTANTS document, blob

Symmetry == Permutations(Threads) \cup Permutations(Keys)
=============================================================================

--------------------------- MODULE MCCaseWorkbench ---------------------------
\* CaseWorkbench for TLC: two customers, the second unknown to the governance service; the
\* only structure has it for its first root.
EXTENDS CaseWorkbench, TLC

CONSTANTS c1, c2

MCStructures == <<<<c2, c1>>>>
Symmetry == Permutations(Officers)
MCDecisions == {"Mark false positive", "Sign off SAR"}
=============================================================================

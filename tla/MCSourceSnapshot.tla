--------------------------- MODULE MCSourceSnapshot ---------------------------
EXTENDS SourceSnapshot, TLC

\* Runs of one plan are interchangeable.
RunSymmetry == Permutations(Runs)
==============================================================================

------------------------------ MODULE MCEngine ------------------------------
EXTENDS Engine, TLC

Symmetry == Permutations(Conn) \cup Permutations(REAL_METHODS)
=============================================================================

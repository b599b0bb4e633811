------------------------------ MODULE MCSession ------------------------------
EXTENDS Session, TLC

Symmetry == Permutations(Tabs) \cup Permutations(Users)
=============================================================================

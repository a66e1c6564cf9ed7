-------------------------- MODULE MCUserManagement --------------------------
EXTENDS UserManagement, TLC

Symmetries == Permutations(UserIds) \cup Permutations(Names) \cup Permutations(Editors)
=============================================================================

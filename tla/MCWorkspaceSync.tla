--------------------------- MODULE MCWorkspaceSync --------------------------
EXTENDS WorkspaceSync, TLC

Symmetric == Permutations(Files) \cup Permutations(Turns)
=============================================================================

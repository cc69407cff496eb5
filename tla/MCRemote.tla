------------------------------ MODULE MCRemote -----------------------------
EXTENDS Remote, TLC
Interchangeable == Permutations(Panes) \cup Permutations(Pids)
=============================================================================

----------------------------- MODULE MCMonitor -----------------------------
EXTENDS MonitorProperties, TLC

Symmetry == Permutations(Threads) \cup Permutations(Objects)
            \cup Permutations(Records)
=============================================================================

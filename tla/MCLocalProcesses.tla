-------------------------- MODULE MCLocalProcesses --------------------------
\* A finite instance: launches, threads and names are interchangeable.
EXTENDS LocalProcesses, TLC

Interchangeable == Permutations(Launches) \cup Permutations(Threads) \cup Permutations(Names)
=============================================================================

----------------------------- MODULE MCStateLock -----------------------------
EXTENDS StateLock, TLC

\* Processes and inode numbers are interchangeable.
Symmetric == Permutations(Procs) \cup Permutations(Inodes)
=============================================================================

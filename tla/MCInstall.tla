----------------------------- MODULE MCInstall -----------------------------
\* Instances of Install for TLC.
EXTENDS Install, TLC

\* Aliases and processes are interchangeable.
Symmetry == Permutations(Aliases) \cup Permutations(Procs)

=============================================================================

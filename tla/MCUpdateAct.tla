---------------------------- MODULE MCUpdateAct ----------------------------
\* A small instance of UpdateAct: neither the daemons nor the process ids can
\* be told apart.
EXTENDS UpdateAct, TLC

Symmetry == Permutations(Daemons) \cup Permutations(Pids)

=============================================================================

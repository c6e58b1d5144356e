----------------------------- MODULE MCGitCache -----------------------------
\* A small instance of GitCache: a home that shows the PR beside one option set, and
\* takes and drops another without it.
EXTENDS GitCache, TLC

CONSTANTS a, b, o1, o2, h1

MCWanted == (h1 :> {<<o1, TRUE>>, <<o2, FALSE>>})

BranchSymmetry == Permutations({a, b})

=============================================================================

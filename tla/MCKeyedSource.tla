--------------------------- MODULE MCKeyedSource ---------------------------
\* A small instance of KeyedSource: a key two homes share, which a run
\* refreshes, beside one that only the first home names.
EXTENDS KeyedSource, TLC

CONSTANTS k1, k2, h1, h2

MCWanted == (h1 :> {k1, k2}) @@ (h2 :> {k1})

=============================================================================

---------------------------- MODULE MCFrameFeed ----------------------------
\* A small instance of FrameFeed: two subscribers on lanes of their own.
EXTENDS FrameFeed, TLC

CONSTANTS s1, s2

MCLaneOf == (s1 :> "band") @@ (s2 :> "pane")

=============================================================================

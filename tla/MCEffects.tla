----------------------------- MODULE MCEffects -----------------------------
\* A small instance of Effects: what its clicks describe, and sessions that start
\* in panes of their own.
EXTENDS Effects

MCOffers == {<<"run">>, <<"doctor", "slash">>}

MCHome == CHOOSE home \in [Sessions -> Panes] : IsInjective(home)

=============================================================================

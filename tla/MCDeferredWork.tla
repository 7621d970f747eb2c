--------------------------- MODULE MCDeferredWork ---------------------------
EXTENDS DeferredWork

\* Blows and a removal to two of three entities, and scripts.
MCWork == {Blow(1), Removal(1), Removal(2), Script}
MCAfterCommits == {Script}
=============================================================================

----------------------------- MODULE MCNodeQueue -----------------------------
\* Instances of NodeQueue for TLC.
EXTENDS NodeQueue

CONSTANTS m1, m2

MCMessages == {m1, m2}

=============================================================================

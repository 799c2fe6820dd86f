------------------------------ MODULE MCRollout ------------------------------
\* Instances of UpdateRollout for TLC.
EXTENDS UpdateRollout, TLC

\* Handlers are interchangeable.
Symmetry == Permutations(Workers)
=============================================================================

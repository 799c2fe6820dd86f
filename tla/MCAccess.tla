------------------------------- MODULE MCAccess -------------------------------
\* Instances of ConnectAccess for TLC.
EXTENDS ConnectAccess, TLC

\* Handlers are interchangeable.
Symmetry == Permutations(Workers)
=============================================================================

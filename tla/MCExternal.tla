------------------------------ MODULE MCExternal ------------------------------
\* Instances of ExternalSignIn for TLC.
EXTENDS ExternalSignIn, TLC

\* Handlers, round trips and the people at the provider are interchangeable.
Symmetry == Permutations(Workers) \cup Permutations(Trips) \cup Permutations(Subjects)
=============================================================================

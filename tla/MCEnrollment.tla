----------------------------- MODULE MCEnrollment -----------------------------
\* Instances of Enrollment for TLC.
EXTENDS Enrollment, TLC

\* RustDesk IDs, tokens and handlers are interchangeable.
Symmetry == Permutations(Ids) \cup Permutations(Tokens) \cup Permutations(Workers)
=============================================================================

------------------------------ MODULE MCSupport ------------------------------
\* Instances of SupportRequests for TLC.
EXTENDS SupportRequests, TLC

\* Ids, addresses, people of one rank and handlers are interchangeable.
Symmetry == Permutations(Requests) \cup Permutations(Addresses)
              \cup Permutations(Users \ Owners) \cup Permutations(Workers)
=============================================================================

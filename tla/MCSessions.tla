----------------------------- MODULE MCSessions -----------------------------
(* Model-checking instances of SessionEvents. *)
EXTENDS SessionEvents, TLC

\* Session ids and handlers of one kind are interchangeable.
Symmetry == Permutations(Sessions) \cup Permutations(Handlers)
=============================================================================

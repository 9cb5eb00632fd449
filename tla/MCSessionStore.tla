--------------------------- MODULE MCSessionStore ---------------------------
(* Model-checking instances of SessionStore.                               *)
EXTENDS SessionStoreRefinement, TLC

\* Random identifiers of one pool, and requests, are interchangeable.
Symmetry == Permutations(LoginId) \cup Permutations(ReplacementId) \cup Permutations(Request)
=============================================================================

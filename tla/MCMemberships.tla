---------------------------- MODULE MCMemberships ---------------------------
(* Model-checking instances of Memberships.                                *)
EXTENDS Memberships, TLC

\* Identifiers of rows, users and request slots are interchangeable.
Symmetry == Permutations(Org) \cup Permutations(User)
              \cup Permutations(RoleId) \cup Permutations(Request)
=============================================================================

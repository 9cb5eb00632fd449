--------------------------- MODULE MCOrganizations --------------------------
(* Model-checking instances of Organizations.                              *)
EXTENDS Organizations, TLC

\* The names "Gym" and "Gym 2": the second candidate of one is the first of
\* the other.
MCBase == {"gym", "gym-2"}
MCTries == 3
MCCandidate == [b \in MCBase |->
  IF b = "gym" THEN <<"gym", "gym-2", "gym-3">> ELSE <<"gym-2", "gym-2-2", "gym-2-3">>]

\* Identifiers of rows, users, values, files and slots are interchangeable.
Symmetry == Permutations(Org) \cup Permutations(User) \cup Permutations(Text)
              \cup Permutations(File) \cup Permutations(Request)
=============================================================================

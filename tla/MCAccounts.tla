----------------------------- MODULE MCAccounts -----------------------------
(* Model-checking instances of Accounts.                                   *)
EXTENDS Accounts, TLC

\* Identifiers, passwords, texts and slots are interchangeable; of the emails
\* some are configured.
Symmetry == Permutations(UserId) \cup Permutations(Password) \cup Permutations(Google)
              \cup Permutations(Text) \cup Permutations(Request)
=============================================================================

---------------------------- MODULE SessionFamily ---------------------------
(***************************************************************************)
(* What refresh-token rotation promises, without statements, locks or      *)
(* requests: a family is a chain of tokens, one of which at most can be    *)
(* exchanged.  Exchanging it spends it and makes a new one the holder;     *)
(* closing a family ends it for good.                                      *)
(***************************************************************************)
CONSTANTS Family,  \* families of sessions
          Token,   \* refresh tokens
          None     \* no token

VARIABLES holder,  \* the token of each family that can be exchanged, or None
          spent,   \* the tokens that can never be exchanged again
          opened   \* the families there have ever been

vars == <<holder, spent, opened>>

Holders == {holder[f] : f \in Family} \ {None}

Unused(t) == t \notin spent /\ t \notin Holders

Init ==
  /\ holder = [f \in Family |-> None]
  /\ spent = {}
  /\ opened = {}

\* A new family starts with an unused token.
Open(f, t) ==
  /\ f \notin opened
  /\ Unused(t)
  /\ holder' = [holder EXCEPT ![f] = t]
  /\ opened' = opened \cup {f}
  /\ UNCHANGED spent

\* The holder is exchanged, once, for an unused token.
Exchange(f, t) ==
  /\ holder[f] # None
  /\ Unused(t)
  /\ holder' = [holder EXCEPT ![f] = t]
  /\ spent' = spent \cup {holder[f]}
  /\ UNCHANGED opened

\* One revocation closes any number of families.
Close(F) ==
  /\ F # {}
  /\ \A f \in F : holder[f] # None
  /\ holder' = [f \in Family |-> IF f \in F THEN None ELSE holder[f]]
  /\ spent' = spent \cup {holder[f] : f \in F}
  /\ UNCHANGED opened

Next ==
  \/ \E f \in Family, t \in Token : Open(f, t) \/ Exchange(f, t)
  \/ \E F \in SUBSET Family : Close(F)

Spec == Init /\ [][Next]_vars
=============================================================================

------------------------ MODULE SessionStoreRefinement ----------------------
(***************************************************************************)
(* The sessions table, with its locks and interleaved statements,          *)
(* implements the one-holder chain of SessionFamily: the holder of a       *)
(* family is its unrevoked session, the spent tokens are the revoked ones. *)
(***************************************************************************)
EXTENDS SessionStore

\* The unrevoked session of family f, or None.
Holder(f) ==
  IF \E s \in Unrevoked : session[s].family = f
  THEN CHOOSE s \in Unrevoked : session[s].family = f
  ELSE None

\* The families with a row, live or not.
Families == {session[s].family : s \in Stored}

Chain == INSTANCE SessionFamily WITH
           Family <- SessionId,
           Token <- SessionId,
           holder <- [f \in SessionId |-> Holder(f)],
           spent <- Stored \ Unrevoked,
           opened <- Families

\* Every behaviour of the table is a behaviour of the abstract chain: tokens
\* are spent one at a time, in order, whatever requests overlap or die.
RefinesSessionFamily == Chain!Spec
=============================================================================

---------------------------- MODULE PermissionSets --------------------------
(***************************************************************************)
(* What replacing the permissions of a role promises, without rows or      *)
(* locks: a replacement is open between two moments and takes effect at    *)
(* the second.  It leaves its own list and, of the permissions granted at  *)
(* that moment, those granted since it opened.                             *)
(***************************************************************************)
EXTENDS FiniteSets

CONSTANTS Role, Code, Request, None

VARIABLES granted,  \* the permissions of each role
          open      \* the replacement each request has open, or None

vars == <<granted, open>>

Replacement == [role: Role, list: SUBSET Code, survive: SUBSET Code]

Init ==
  /\ granted \in [Role -> SUBSET Code]
  /\ open = [r \in Request |-> None]

Open(r, i, list) ==
  /\ open[r] = None
  /\ open' = [open EXCEPT ![r] = [role |-> i, list |-> list, survive |-> {}]]
  /\ UNCHANGED granted

\* Of what another open replacement of the role would spare, this one takes
\* away what it does not spare itself and adds its own list.
Replace(r) ==
  /\ open[r] # None
  /\ LET o == open[r]
         left == o.list \cup o.survive
     IN  /\ granted' = [granted EXCEPT ![o.role] = left]
         /\ open' = [q \in Request |->
              IF q = r THEN None
              ELSE IF open[q] # None /\ open[q].role = o.role
                   THEN [open[q] EXCEPT !.survive = (@ \cap left) \cup o.list]
                   ELSE open[q]]

Abandon(r) ==
  /\ open[r] # None
  /\ open' = [open EXCEPT ![r] = None]
  /\ UNCHANGED granted

\* Roles that nothing refers to yet get their first permissions.
Seed ==
  /\ granted' \in [Role -> SUBSET Code]
  /\ \A i \in Role :
       granted'[i] # granted[i] =>
         granted[i] = {} /\ \A r \in Request : open[r] # None => open[r].role # i
  /\ UNCHANGED open

Next ==
  \/ \E r \in Request : \/ \E i \in Role, list \in SUBSET Code : Open(r, i, list)
                        \/ Replace(r)
                        \/ Abandon(r)
  \/ Seed

Spec == Init /\ [][Next]_vars
=============================================================================

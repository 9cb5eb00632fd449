---------------------------- MODULE RolePermissions -------------------------
(***************************************************************************)
(* The permissions of the roles: the rows of role_permissions, the         *)
(* replacement of the set of a role, and the sets the seeder writes.       *)
(*                                                                         *)
(* A replacement reads the role and the catalog, then runs one             *)
(* transaction at READ COMMITTED: an UPDATE that marks every row of the    *)
(* role deleted, whether it is already or not, and one INSERT of the rows  *)
(* of the list.  The UPDATE works on the rows committed when it begins and *)
(* waits for those another transaction has locked.  The INSERT waits for   *)
(* another transaction that is adding or removing the same permission and  *)
(* fails if the permission is there: the unique index on role and code     *)
(* covers the rows that are not deleted.                                   *)
(*                                                                         *)
(* A request is used once and stays as it ended.                           *)
(***************************************************************************)
EXTENDS FiniteSets, Naturals, Sequences

CONSTANTS Role,      \* the UUIDs a role can get (bounds the roles ever created)
          Key,       \* role keys
          OwnerKey,  \* the key of the owner role, which is never deleted
          SeedSet,   \* the permissions seeded with each key of the initial catalog
          Code,      \* codes a client may send
          Catalog,   \* the codes of the permission catalog, fixed by the program
          List,      \* the lists clients send
          Request,   \* replacement requests (bounds their number)
          None       \* no row, no role, no writer

VARIABLES role,     \* the row of each role id, or None
          live,     \* the committed rows that are not deleted
          dead,     \* the committed rows that are deleted
          request   \* what each request is doing

vars == <<role, live, dead, request>>

SeedKey == DOMAIN SeedSet
RoleRow == [key: Key, deleted: BOOLEAN]

\* A row is named by its role, its code and the request that inserted it; the
\* seeder's rows have None for the latter.
Row == [role: Role, code: Code, by: Request \cup {None}]

Step == {"idle", "role", "codes", "delete", "update", "insert", "answered"}
Answer == {"none", "replaced", "notFound", "unknown", "conflict", "failed"}

RequestState == [step: Step, answer: Answer, role: Role \cup {None}, list: List,
                 seen: SUBSET Row, todo: SUBSET Row, put: Nat]

ASSUME NoneAssumption ==
  None \notin RoleRow /\ None \notin Role /\ None \notin Request
ASSUME SeedAssumption ==
  /\ OwnerKey \in SeedKey /\ SeedKey \subseteq Key
  /\ Catalog \subseteq Code
  /\ SeedSet \in [SeedKey -> SUBSET Catalog]
ASSUME ListAssumption == List \subseteq Seq(Code) /\ <<>> \in List

Idle == [step |-> "idle", answer |-> "none", role |-> None, list |-> <<>>,
         seen |-> {}, todo |-> {}, put |-> 0]

ActiveRole == {i \in Role : role[i] # None /\ ~role[i].deleted}
KeyTaken(k) == \E i \in ActiveRole : role[i].key = k

\* A process listens after its first boot: the owner role is never missing again.
Seeded == KeyTaken(OwnerKey)

\* What the queries return: the permissions of a role.
Granted(i) == {row.code : row \in {x \in live : x.role = i}}

Codes(list) == {list[n] : n \in DOMAIN list}

\* The transaction of r: the rows it has locked by updating them, the rows it
\* has inserted; neither is visible to others before the commit.
InTransaction(r) == request[r].step \in {"update", "insert"}
Locked(r) == request[r].seen \ request[r].todo
Inserted(r) == {[role |-> request[r].role, code |-> request[r].list[n], by |-> r] :
                 n \in 1..request[r].put}

SeedRows(i, k) == {[role |-> i, code |-> c, by |-> None] : c \in SeedSet[k]}
-----------------------------------------------------------------------------
(* The catalog of roles.                                                   *)

\* Mutant: a boot gives the roles whose keys are seeded the seeds again.
BootResets ==
  LET missing == {k \in SeedKey : ~KeyTaken(k)}
      seeded == {i \in ActiveRole : role[i].key \in SeedKey}
  IN  \E id \in [missing -> {i \in Role : role[i] = None}] :
        /\ \A j, k \in missing : id[j] = id[k] => j = k
        /\ role' = [i \in Role |->
             IF \E k \in missing : id[k] = i
             THEN [key |-> CHOOSE k \in missing : id[k] = i, deleted |-> FALSE]
             ELSE role[i]]
        /\ live' = {x \in live : x.role \notin seeded}
                     \cup UNION {SeedRows(i, role[i].key) : i \in seeded}
                     \cup UNION {SeedRows(id[k], k) : k \in missing}
        /\ dead' = dead \cup (live \ live')
        /\ UNCHANGED request

\* The seeder runs in one transaction: every seeded key that no active role has
\* gets a new role with its permissions.  A role whose key is there is left
\* alone, with its permissions.
Boot ==
  LET missing == {k \in SeedKey : ~KeyTaken(k)}
  IN  \E id \in [missing -> {i \in Role : role[i] = None}] :
        /\ \A j, k \in missing : id[j] = id[k] => j = k
        /\ role' = [i \in Role |->
             IF \E k \in missing : id[k] = i
             THEN [key |-> CHOOSE k \in missing : id[k] = i, deleted |-> FALSE]
             ELSE role[i]]
        /\ live' = live \cup UNION {SeedRows(id[k], k) : k \in missing}
        /\ UNCHANGED <<dead, request>>

\* A role created by an administrator has no permissions yet.
CreateRole(i, k) ==
  /\ Seeded /\ role[i] = None /\ ~KeyTaken(k)
  /\ role' = [role EXCEPT ![i] = [key |-> k, deleted |-> FALSE]]
  /\ UNCHANGED <<live, dead, request>>

\* The rows of role_permissions stay.
DeleteRole(i) ==
  /\ i \in ActiveRole /\ role[i].key # OwnerKey
  /\ role' = [role EXCEPT ![i].deleted = TRUE]
  /\ UNCHANGED <<live, dead, request>>
-----------------------------------------------------------------------------
(* PUT /admin/roles/:roleId/permissions.                                   *)

Receive(r, i, list) ==
  /\ Seeded /\ request[r].step = "idle"
  /\ request' = [request EXCEPT ![r].step = "role", ![r].role = i, ![r].list = list]
  /\ UNCHANGED <<role, live, dead>>

\* A rollback drops what the transaction has marked and inserted.
Answers(r, answer) ==
  /\ request' = [request EXCEPT ![r].step = "answered", ![r].answer = answer,
                                ![r].seen = {}, ![r].todo = {}, ![r].put = 0]
  /\ UNCHANGED <<role, live, dead>>

Goes(r, step) ==
  /\ request' = [request EXCEPT ![r].step = step]
  /\ UNCHANGED <<role, live, dead>>

FindRole(r) ==
  /\ request[r].step = "role"
  /\ IF request[r].role \in ActiveRole THEN Goes(r, "codes") ELSE Answers(r, "notFound")

\* One query per code, of a catalog that does not change.
CheckCodes(r) ==
  /\ request[r].step = "codes"
  /\ IF Codes(request[r].list) \subseteq Catalog THEN Goes(r, "delete") ELSE Answers(r, "unknown")

\* Mutant: the UPDATE has no condition on the role.
BeginDeleteAll(r) ==
  /\ request[r].step = "delete"
  /\ request' = [request EXCEPT ![r].seen = live \cup dead, ![r].todo = live \cup dead,
                   ![r].step = IF live \cup dead = {} THEN "insert" ELSE "update"]
  /\ UNCHANGED <<role, live, dead>>

\* The UPDATE takes its snapshot: the committed rows of the role.
BeginDelete(r) ==
  LET rows == {x \in live \cup dead : x.role = request[r].role}
  IN  /\ request[r].step = "delete"
      /\ request' = [request EXCEPT ![r].seen = rows, ![r].todo = rows,
                       ![r].step = IF rows = {} THEN "insert" ELSE "update"]
      /\ UNCHANGED <<role, live, dead>>

\* Mutant: rows that another transaction has locked are skipped.
DeleteRowSkipLocked(r, x) ==
  /\ request[r].step = "update" /\ x \in request[r].todo
  /\ request' = [request EXCEPT
       ![r].todo = @ \ {x},
       ![r].seen = IF \E q \in Request \ {r} : InTransaction(q) /\ x \in Locked(q)
                   THEN @ \ {x} ELSE @,
       ![r].step = IF request[r].todo = {x} THEN "insert" ELSE "update"]
  /\ UNCHANGED <<role, live, dead>>

\* A row is updated once no other transaction holds it, in whatever order the
\* plan meets the rows; it still is a row of the role.
DeleteRow(r, x) ==
  /\ request[r].step = "update" /\ x \in request[r].todo
  /\ \A q \in Request \ {r} : InTransaction(q) => x \notin Locked(q)
  /\ request' = [request EXCEPT ![r].todo = @ \ {x},
                   ![r].step = IF request[r].todo = {x} THEN "insert" ELSE "update"]
  /\ UNCHANGED <<role, live, dead>>

\* The next row of the INSERT, and whom it waits for: who has inserted the same
\* permission, or is deleting it.
NextCode(r) == request[r].list[request[r].put + 1]
SamePermission(r, x) == x.role = request[r].role /\ x.code = NextCode(r)
Inserting(r) == request[r].step = "insert" /\ request[r].put < Len(request[r].list)
Adversaries(r) ==
  {q \in Request \ {r} : /\ InTransaction(q)
                         /\ \E x \in Inserted(q) \cup (Locked(q) \cap live) : SamePermission(r, x)}

\* Mutant: a failed INSERT leaves the transaction open.
InsertRowOrHang(r) ==
  /\ Inserting(r) /\ Adversaries(r) = {}
  /\ ~\E x \in (live \ Locked(r)) \cup Inserted(r) : SamePermission(r, x)
  /\ request' = [request EXCEPT ![r].put = @ + 1]
  /\ UNCHANGED <<role, live, dead>>

InsertRow(r) ==
  /\ Inserting(r) /\ Adversaries(r) = {}
  /\ IF \E x \in (live \ Locked(r)) \cup Inserted(r) : SamePermission(r, x)
     THEN Answers(r, "conflict")
     ELSE /\ request' = [request EXCEPT ![r].put = @ + 1]
          /\ UNCHANGED <<role, live, dead>>

\* Mutant: no transaction around the two statements, the UPDATE commits first.
CommitDelete(r) ==
  /\ request[r].step = "insert"
  /\ IF Locked(r) \cap live # {}
     THEN /\ live' = live \ Locked(r) /\ dead' = dead \cup Locked(r)
          /\ UNCHANGED <<role, request>>
     ELSE /\ ~Inserting(r)
          /\ live' = live \cup Inserted(r)
          /\ request' = [request EXCEPT ![r].step = "answered", ![r].answer = "replaced"]
          /\ UNCHANGED <<role, dead>>

Commit(r) ==
  /\ request[r].step = "insert" /\ ~Inserting(r)
  /\ live' = (live \ Locked(r)) \cup Inserted(r)
  /\ dead' = dead \cup Locked(r)
  /\ request' = [request EXCEPT ![r].step = "answered", ![r].answer = "replaced"]
  /\ UNCHANGED role

\* Whom a transaction cannot go on without: the one its next row waits for, or
\* the holders of all the rows its UPDATE has left.
WaitsFor(r) ==
  IF Inserting(r) THEN Adversaries(r)
  ELSE IF request[r].step = "update"
            /\ \A x \in request[r].todo :
                 \E q \in Request \ {r} : InTransaction(q) /\ x \in Locked(q)
       THEN {q \in Request \ {r} : InTransaction(q) /\ Locked(q) \cap request[r].todo # {}}
       ELSE {}

Deadlocked(D) == D # {} /\ \A r \in D : WaitsFor(r) \cap D # {}

\* Postgres aborts one of the transactions of such a set.
DeadlockVictim(r) ==
  /\ \E D \in SUBSET Request : r \in D /\ Deadlocked(D)
  /\ Answers(r, "failed")

\* A crash, or a statement that fails.
Fail(r) ==
  /\ request[r].step \notin {"idle", "answered"}
  /\ Answers(r, "failed")
-----------------------------------------------------------------------------
Progress(r) ==
  \/ FindRole(r) \/ CheckCodes(r) \/ BeginDelete(r)
  \/ \E x \in request[r].todo : DeleteRow(r, x)
  \/ InsertRow(r) \/ Commit(r) \/ DeadlockVictim(r)

\* An empty database; the first boot seeds it before it serves any request.
Init ==
  /\ role = [i \in Role |-> None]
  /\ live = {} /\ dead = {}
  /\ request = [r \in Request |-> Idle]

Next ==
  \/ Boot
  \/ \E i \in Role : DeleteRole(i) \/ \E k \in Key : CreateRole(i, k)
  \/ \E r \in Request :
       \/ \E i \in Role, list \in List : Receive(r, i, list)
       \/ Progress(r)
       \/ Fail(r)

Spec == Init /\ [][Next]_vars

\* The event loop and the database serve every request they have accepted.
Fairness == \A r \in Request : WF_vars(Progress(r))
FairSpec == Spec /\ Fairness
-----------------------------------------------------------------------------
(* Properties.                                                             *)

\* The tables and the requests have their types; a replacement has seen rows of
\* its role, and what it has left to update is among them.
TypeOK ==
  /\ role \in [Role -> RoleRow \cup {None}]
  /\ live \subseteq Row /\ dead \subseteq Row
  /\ request \in [Request -> RequestState]
  /\ \A r \in Request : /\ request[r].todo \subseteq request[r].seen
                         /\ \A x \in request[r].seen : x.role = request[r].role

Replaced(r) == request[r].answer = "replaced"

\* The rows that were ever committed: those of the seeds and of every
\* replacement that answered.
Written ==
  {x \in live \cup dead : x.by = None} \cup UNION {Inserted(r) : r \in {q \in Request : Replaced(q)}}

\* What a role grants is what was written and no replacement that saw it has
\* taken away: nothing a replacement saw outlives it, whoever held the row, and
\* nothing it wrote is lost to one that did not see it.
GrantsAreWhatNobodyReplaced ==
  live = Written \ UNION {request[r].seen : r \in {q \in Request : Replaced(q)}}

\* A permission goes only with the commit of a replacement of the role that
\* leaves it out: no check ever misses one that the old and the new set share.
\* In particular a boot takes nothing away.
PermissionsGoByReplacement ==
  [][\A i \in Role : \A c \in Granted(i) \ Granted(i)' :
       \E r \in Request : /\ ~Replaced(r) /\ Replaced(r)'
                          /\ request[r].role = i /\ c \notin Codes(request[r].list)]_vars

\* A replacement ends, however it waits for others.
ReplacementsEnd ==
  \A r \in Request : InTransaction(r) ~> request[r].step = "answered"
-----------------------------------------------------------------------------
\* What each open transaction will leave in place, if it commits.
OpenReplacement(r) ==
  IF InTransaction(r)
  THEN [role |-> request[r].role, list |-> Codes(request[r].list),
        survive |-> {x.code : x \in {y \in live : y.role = request[r].role} \ request[r].seen}]
  ELSE None

Sets == INSTANCE PermissionSets WITH
  granted <- [i \in Role |-> Granted(i)],
  open <- [r \in Request |-> OpenReplacement(r)]

ASSUME ReplacementAssumption == None \notin Sets!Replacement

\* The rows, snapshots and locks implement sets that are replaced at one moment.
RefinesPermissionSets == Sets!Spec
=============================================================================

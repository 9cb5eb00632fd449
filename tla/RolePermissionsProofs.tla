----------------------- MODULE RolePermissionsProofs ------------------------
(***************************************************************************)
(* Proofs about RolePermissions, for every number of roles, codes, lists   *)
(* and overlapping replacements.                                           *)
(*                                                                         *)
(* The argument: rows never vanish, so what a replacement has seen is      *)
(* still a committed row when it commits; a row names the request that     *)
(* inserted it, and none of a request is committed before it answers; and  *)
(* a role that has no row in the catalog has none in role_permissions, nor *)
(* an open replacement, so the seeds of a boot meet nobody.  What keeps    *)
(* two live rows from granting the same permission is the wait of INSERT   *)
(* for the permissions other transactions insert.                          *)
(***************************************************************************)
EXTENDS RolePermissions, FiniteSetTheorems, TLAPS

\* The codes a transaction has inserted, the rows it holds, whether it is open.
Put(q) == {q.list[n] : n \in 1..q.put}
PutRows(r, q) == {[role |-> q.role, code |-> c, by |-> r] : c \in Put(q)}
Held(q) == q.seen \ q.todo
Open(q) == q.step \in {"update", "insert"}

\* What a request knows for certain at each of its steps.
RequestInv(q) ==
  /\ q.step = "answered" <=> q.answer # "none"
  /\ q.step \in {"codes", "delete", "update", "insert"} => q.role \in Role /\ role[q.role] # None
  /\ q.step \notin {"insert", "answered"} => q.put = 0
  /\ q.step \notin {"update", "insert", "answered"} => q.seen = {}
  /\ q.step = "insert" => q.todo = {}
  /\ q.put <= Len(q.list)
  /\ q.seen \subseteq live \cup dead
  /\ Open(q) => \A x \in live \ Held(q) : x.role = q.role => x.code \notin Put(q)

\* A row belongs to a role that was created, and to the seeds or to a
\* replacement that answered.
RowsHaveOrigin ==
  \A x \in live \cup dead : role[x.role] # None /\ (x.by # None => request[x.by].answer = "replaced")

\* The unique index: no permission is granted to a role twice.
NoPermissionTwice ==
  \A x, y \in live : x.role = y.role /\ x.code = y.code => x = y

\* No two open transactions have inserted the same permission.
InsertsAreApart ==
  \A p, q \in Request :
    p # q /\ Open(request[p]) /\ Open(request[q]) /\ request[p].role = request[q].role
      => Put(request[p]) \cap Put(request[q]) = {}

IInv ==
  /\ TypeOK
  /\ \A r \in Request : RequestInv(request[r])
  /\ RowsHaveOrigin
  /\ NoPermissionTwice
  /\ InsertsAreApart
  /\ GrantsAreWhatNobodyReplaced
-----------------------------------------------------------------------------
\* The rows a request has inserted are those of its codes.
LEMMA InsertedIs ==
  ASSUME NEW r \in Request
  PROVE  Inserted(r) = PutRows(r, request[r])
BY DEF Inserted, PutRows, Put

\* The same of the state after a step.
LEMMA InsertedIsNext ==
  ASSUME NEW r \in Request
  PROVE  Inserted(r)' = PutRows(r, request'[r])
BY DEF Inserted, PutRows, Put

\* They are codes of its list, all of them in the end.
LEMMA PutCodes ==
  ASSUME NEW q \in RequestState, q.put <= Len(q.list)
  PROVE  /\ Put(q) \subseteq Codes(q.list) \cap Code
         /\ q.put = 0 => Put(q) = {}
         /\ q.put = Len(q.list) => Put(q) = Codes(q.list)
<1>1. q.list \in Seq(Code) /\ q.put \in Nat
  BY ListAssumption DEF RequestState
<1>2. DOMAIN q.list = 1..Len(q.list) /\ \A n \in DOMAIN q.list : q.list[n] \in Code
  BY <1>1
<1> QED
  BY <1>1, <1>2 DEF Put, Codes

\* The rows that were ever written, and those a replacement has taken away.
Gained(rows, requests, x) ==
  \/ x \in rows /\ x.by = None
  \/ \E q \in Request : requests[q].answer = "replaced" /\ x \in PutRows(q, requests[q])
Lost(requests, x) ==
  \E q \in Request : requests[q].answer = "replaced" /\ x \in requests[q].seen

\* The invariant on what the roles grant, one row at a time.
LEMMA GrantsByRow ==
  GrantsAreWhatNobodyReplaced <=>
    \A x : x \in live <=> Gained(live \cup dead, request, x) /\ ~Lost(request, x)
BY InsertedIs DEF GrantsAreWhatNobodyReplaced, Written, Replaced, Gained, Lost

\* The same of the state after a step.
LEMMA GrantsByRowNext ==
  GrantsAreWhatNobodyReplaced' <=>
    \A x : x \in live' <=> Gained(live' \cup dead', request', x) /\ ~Lost(request', x)
<1>1. \A q \in Request : Replaced(q)' <=> request'[q].answer = "replaced"
  BY DEF Replaced
<1> QED
  BY InsertedIsNext DEF GrantsAreWhatNobodyReplaced, Written, Replaced, Gained, Lost

\* A step of one request that neither inserts nor commits leaves the invariant
\* intact, provided that the request knows what it should afterwards.
LEMMA LocalStep ==
  ASSUME IInv, NEW r \in Request, request[r].answer # "replaced",
         NEW n \in RequestState, RequestInv(n), n.put = 0, n.answer # "replaced",
         n.todo \subseteq n.seen, \A x \in n.seen : x.role = n.role,
         request' = [request EXCEPT ![r] = n], UNCHANGED <<role, live, dead>>
  PROVE  IInv'
<1>1. request \in [Request -> RequestState] /\ request'[r] = n
      /\ \A q \in Request \ {r} : request'[q] = request[q]
  BY DEF IInv, TypeOK
<1>2. TypeOK'
  BY <1>1 DEF IInv, TypeOK
<1>3. \A q \in Request : RequestInv(request[q])'
  BY <1>1 DEF IInv, RequestInv
<1>4. \A q \in Request : request[q].answer = "replaced" => request'[q] = request[q]
  BY <1>1
<1>5. RowsHaveOrigin'
  BY <1>4 DEF IInv, RowsHaveOrigin, TypeOK, Row
<1>6. NoPermissionTwice'
  BY DEF IInv, NoPermissionTwice
<1>7. Put(n) = {}
  BY <1>1, PutCodes DEF RequestInv
<1>8. InsertsAreApart'
  BY <1>1, <1>7 DEF IInv, InsertsAreApart
<1>9. GrantsAreWhatNobodyReplaced'
  <2>1. \A x : /\ Gained(live' \cup dead', request', x) <=> Gained(live \cup dead, request, x)
               /\ Lost(request', x) <=> Lost(request, x)
    BY <1>1 DEF Gained, Lost
  <2> QED
    BY <2>1, GrantsByRow, GrantsByRowNext DEF IInv
<1> QED
  BY <1>2, <1>3, <1>5, <1>6, <1>8, <1>9 DEF IInv
-----------------------------------------------------------------------------
\* A boot only adds rows for roles that were never there, one per permission.
LEMMA BootEffect ==
  ASSUME TypeOK, Boot
  PROVE  /\ \E new \in SUBSET Row :
              /\ live' = live \cup new
              /\ \A x \in new : role[x.role] = None /\ role'[x.role] # None /\ x.by = None
              /\ \A x, y \in new : x.role = y.role /\ x.code = y.code => x = y
         /\ role' \in [Role -> RoleRow \cup {None}]
         /\ \A i \in Role : role[i] # None => role'[i] # None
         /\ UNCHANGED <<dead, request>>
<1> DEFINE missing == {k \in SeedKey : ~KeyTaken(k)}
<1>1. PICK id \in [missing -> {i \in Role : role[i] = None}] :
        /\ role' = [i \in Role |->
             IF \E k \in missing : id[k] = i
             THEN [key |-> CHOOSE k \in missing : id[k] = i, deleted |-> FALSE]
             ELSE role[i]]
        /\ live' = live \cup UNION {SeedRows(id[k], k) : k \in missing}
        /\ UNCHANGED <<dead, request>>
        /\ \A j, k \in missing : id[j] = id[k] => j = k
  BY DEF Boot
<1>2. missing \subseteq Key /\ missing \subseteq SeedKey
  BY SeedAssumption
<1> HIDE DEF missing
<1> DEFINE new == UNION {SeedRows(id[k], k) : k \in missing}
<1>3. \A i \in Role : \/ /\ \E k \in missing : id[k] = i
                         /\ role'[i] \in RoleRow
                      \/ role'[i] = role[i] /\ \A k \in missing : id[k] # i
  <2> SUFFICES ASSUME NEW i \in Role, NEW k \in missing, id[k] = i
               PROVE  role'[i] \in RoleRow
    BY <1>1
  <2>1. (CHOOSE j \in missing : id[j] = i) \in Key
    BY <1>2
  <2> QED
    BY <1>1, <2>1 DEF RoleRow
<1>4. role' \in [Role -> RoleRow \cup {None}]
  BY <1>1, <1>3 DEF TypeOK
<1>5. \A i \in Role : role[i] # None => role'[i] # None
  BY <1>1, <1>3, NoneAssumption
<1>6. ASSUME NEW x \in new
      PROVE  /\ x \in Row /\ role[x.role] = None /\ role'[x.role] # None /\ x.by = None
             /\ \E k \in missing : x.role = id[k] /\ x \in SeedRows(id[k], k)
  <2>1. PICK k \in missing : x \in SeedRows(id[k], k)
    OBVIOUS
  <2>2. PICK c \in SeedSet[k] : x = [role |-> id[k], code |-> c, by |-> None]
    BY <2>1 DEF SeedRows
  <2>3. c \in Code /\ id[k] \in Role /\ role[id[k]] = None
    BY <1>1, <1>2, SeedAssumption
  <2>4. role'[id[k]] # None
    BY <1>3, <2>3, NoneAssumption
  <2> QED
    BY <2>1, <2>2, <2>3, <2>4 DEF Row
<1>7. \A x, y \in new : x.role = y.role /\ x.code = y.code => x = y
  <2> SUFFICES ASSUME NEW x \in new, NEW y \in new, x.role = y.role, x.code = y.code
               PROVE  x = y
    OBVIOUS
  <2> QED
    BY <1>6 DEF Row
<1>8. live' = live \cup new
  BY <1>1
<1>9. new \in SUBSET Row /\ \A x \in new : role[x.role] = None /\ role'[x.role] # None /\ x.by = None
  BY <1>6
<1> HIDE DEF new
<1> QED
  BY <1>1, <1>4, <1>5, <1>7, <1>8, <1>9

\* The seeds of a boot meet no row and no open replacement.
LEMMA BootStep ==
  ASSUME IInv, Boot
  PROVE  IInv'
<1>1. PICK new \in SUBSET Row :
        /\ live' = live \cup new
        /\ \A x \in new : role[x.role] = None /\ role'[x.role] # None /\ x.by = None
        /\ \A x, y \in new : x.role = y.role /\ x.code = y.code => x = y
  BY BootEffect DEF IInv
<1>2. /\ role' \in [Role -> RoleRow \cup {None}]
      /\ \A i \in Role : role[i] # None => role'[i] # None
      /\ UNCHANGED <<dead, request>>
  BY BootEffect DEF IInv
<1>3. \A x \in live \cup dead : x \in Row /\ role[x.role] # None /\ role'[x.role] # None
  BY <1>2 DEF IInv, TypeOK, RowsHaveOrigin, Row
<1>4. TypeOK'
  BY <1>1, <1>2 DEF IInv, TypeOK
<1>5. \A q \in Request : RequestInv(request[q])'
  BY <1>1, <1>2 DEF IInv, RequestInv, Open
<1>6. RowsHaveOrigin'
  BY <1>1, <1>2, <1>3 DEF IInv, RowsHaveOrigin
<1>7. NoPermissionTwice'
  BY <1>1, <1>3 DEF IInv, NoPermissionTwice
<1>8. InsertsAreApart'
  BY <1>2 DEF IInv, InsertsAreApart
<1>9. GrantsAreWhatNobodyReplaced'
  <2> SUFFICES ASSUME NEW x
               PROVE  x \in live' <=> Gained(live' \cup dead', request', x) /\ ~Lost(request', x)
    BY GrantsByRowNext
  <2>1. x \in new => ~Lost(request, x)
    BY <1>1, <1>3 DEF IInv, Lost, RequestInv
  <2>2. Gained(live' \cup dead', request', x) <=> Gained(live \cup dead, request, x) \/ x \in new
    BY <1>1, <1>2 DEF Gained
  <2> QED
    BY <1>1, <1>2, <2>1, <2>2, GrantsByRow DEF IInv
<1> QED
  BY <1>4, <1>5, <1>6, <1>7, <1>8, <1>9 DEF IInv

\* The catalog of roles changes without the rows: a role that was created stays.
LEMMA CatalogStep ==
  ASSUME IInv, UNCHANGED <<live, dead, request>>,
         role' \in [Role -> RoleRow \cup {None}],
         \A i \in Role : role[i] # None => role'[i] # None
  PROVE  IInv'
<1>1. TypeOK'
  BY DEF IInv, TypeOK
<1>2. \A q \in Request : RequestInv(request[q])'
  BY DEF IInv, RequestInv
<1>3. RowsHaveOrigin'
  BY DEF IInv, RowsHaveOrigin, TypeOK, Row
<1>4. NoPermissionTwice' /\ InsertsAreApart'
  BY DEF IInv, NoPermissionTwice, InsertsAreApart
<1>5. GrantsAreWhatNobodyReplaced'
  BY GrantsByRow, GrantsByRowNext DEF IInv
<1> QED
  BY <1>1, <1>2, <1>3, <1>4, <1>5 DEF IInv

\* A role is created without permissions, and ...
LEMMA CreateRoleStep ==
  ASSUME IInv, NEW i \in Role, NEW k \in Key, CreateRole(i, k)
  PROVE  IInv'
<1>1. [key |-> k, deleted |-> FALSE] \in RoleRow
  BY DEF RoleRow
<1>2. role' \in [Role -> RoleRow \cup {None}]
  BY <1>1 DEF IInv, TypeOK, CreateRole
<1>3. \A j \in Role : role[j] # None => role'[j] # None
  BY <1>1, NoneAssumption DEF IInv, TypeOK, CreateRole
<1> QED
  BY <1>2, <1>3, CatalogStep DEF CreateRole

\* ... deleted with the rows it has left in place.
LEMMA DeleteRoleStep ==
  ASSUME IInv, NEW i \in Role, DeleteRole(i)
  PROVE  IInv'
<1>1. role[i] \in RoleRow /\ role' = [role EXCEPT ![i].deleted = TRUE]
  BY DEF IInv, TypeOK, DeleteRole, ActiveRole
<1>2. [role[i] EXCEPT !.deleted = TRUE] \in RoleRow
  BY <1>1 DEF RoleRow
<1>3. role' \in [Role -> RoleRow \cup {None}]
  BY <1>1, <1>2 DEF IInv, TypeOK
<1>4. \A j \in Role : role[j] # None => role'[j] # None
  BY <1>1, <1>2, NoneAssumption DEF IInv, TypeOK
<1> QED
  BY <1>3, <1>4, CatalogStep DEF DeleteRole
-----------------------------------------------------------------------------
\* A request arrives with nothing read, held or inserted.
LEMMA ReceiveStep ==
  ASSUME IInv, NEW r \in Request, NEW i \in Role, NEW list \in List, Receive(r, i, list)
  PROVE  IInv'
<1> DEFINE n == [request[r] EXCEPT !.step = "role", !.role = i, !.list = list]
<1>1. request[r] \in RequestState /\ RequestInv(request[r]) /\ request[r].step = "idle"
  BY DEF IInv, TypeOK, Receive
<1>2. /\ request[r].put = 0 /\ request[r].answer = "none"
      /\ request[r].seen = {} /\ request[r].todo = {}
  BY <1>1 DEF IInv, TypeOK, RequestInv
<1>3. n \in RequestState /\ n.put = 0 /\ n.answer = "none" /\ n.step = "role"
      /\ n.seen = {} /\ n.todo = {} /\ n.list \in Seq(Code)
  BY <1>1, <1>2, ListAssumption DEF RequestState, Step
<1>4. request' = [request EXCEPT ![r] = n] /\ UNCHANGED <<role, live, dead>>
  BY DEF IInv, TypeOK, Receive
<1> HIDE DEF n
<1>5. RequestInv(n)
  BY <1>3 DEF RequestInv, Open
<1> QED
  BY <1>2, <1>3, <1>4, <1>5, LocalStep

\* A request that is refused or rolled back knows and holds nothing.
LEMMA AnswersStep ==
  ASSUME IInv, NEW r \in Request, request[r].step \notin {"idle", "answered"},
         NEW answer \in {"notFound", "unknown", "conflict", "failed"}, Answers(r, answer)
  PROVE  IInv'
<1> DEFINE n == [request[r] EXCEPT !.step = "answered", !.answer = answer,
                                   !.seen = {}, !.todo = {}, !.put = 0]
<1>1. request \in [Request -> RequestState] /\ request[r] \in RequestState /\ RequestInv(request[r])
  BY DEF IInv, TypeOK
<1>2. request[r].answer = "none" /\ request[r].list \in Seq(Code)
  BY <1>1, ListAssumption DEF RequestInv, RequestState
<1>3. n \in RequestState
  BY <1>1 DEF RequestState, Step, Answer
<1>4. RequestInv(n) /\ n.put = 0 /\ n.answer # "replaced" /\ n.seen = {} /\ n.todo = {}
  BY <1>1, <1>2 DEF RequestInv, RequestState, Open
<1>5. request' = [request EXCEPT ![r] = n] /\ UNCHANGED <<role, live, dead>>
  BY <1>1 DEF Answers
<1> HIDE DEF n
<1> QED
  BY <1>2, <1>3, <1>4, <1>5, LocalStep

\* The role a replacement goes on with was created.
LEMMA FindRoleStep ==
  ASSUME IInv, NEW r \in Request, FindRole(r)
  PROVE  IInv'
<1>1. request \in [Request -> RequestState] /\ RequestInv(request[r]) /\ request[r].step = "role"
  BY DEF IInv, TypeOK, FindRole
<1>2. CASE request[r].role \in ActiveRole /\ Goes(r, "codes")
  <2> DEFINE n == [request[r] EXCEPT !.step = "codes"]
  <2>1. n \in RequestState
    BY <1>1 DEF RequestState, Step
  <2>2. RequestInv(n) /\ n.put = 0 /\ n.answer = "none" /\ request[r].answer = "none"
    BY <1>1, <1>2 DEF RequestInv, RequestState, ActiveRole, Open
  <2>3. n.todo \subseteq n.seen /\ \A x \in n.seen : x.role = n.role
    BY <1>1 DEF IInv, TypeOK, RequestState
  <2>4. request' = [request EXCEPT ![r] = n] /\ UNCHANGED <<role, live, dead>>
    BY <1>1, <1>2 DEF Goes
  <2> HIDE DEF n
  <2> QED
    BY <2>1, <2>2, <2>3, <2>4, LocalStep
<1> QED
  BY <1>1, <1>2, AnswersStep DEF FindRole

\* The look-up of the codes leaves the tables alone.
LEMMA CheckCodesStep ==
  ASSUME IInv, NEW r \in Request, CheckCodes(r)
  PROVE  IInv'
<1>1. request \in [Request -> RequestState] /\ RequestInv(request[r]) /\ request[r].step = "codes"
  BY DEF IInv, TypeOK, CheckCodes
<1>2. CASE Goes(r, "delete")
  <2> DEFINE n == [request[r] EXCEPT !.step = "delete"]
  <2>1. n \in RequestState
    BY <1>1 DEF RequestState, Step
  <2>2. RequestInv(n) /\ n.put = 0 /\ n.answer = "none" /\ request[r].answer = "none"
    BY <1>1 DEF RequestInv, RequestState, Open
  <2>3. n.todo \subseteq n.seen /\ \A x \in n.seen : x.role = n.role
    BY <1>1 DEF IInv, TypeOK, RequestState
  <2>4. request' = [request EXCEPT ![r] = n] /\ UNCHANGED <<role, live, dead>>
    BY <1>1, <1>2 DEF Goes
  <2> HIDE DEF n
  <2> QED
    BY <2>1, <2>2, <2>3, <2>4, LocalStep
<1> QED
  BY <1>1, <1>2, AnswersStep DEF CheckCodes

\* The snapshot of an UPDATE is of committed rows of the role.
LEMMA BeginDeleteStep ==
  ASSUME IInv, NEW r \in Request, BeginDelete(r)
  PROVE  IInv'
<1> DEFINE rows == {x \in live \cup dead : x.role = request[r].role}
           step == IF rows = {} THEN "insert" ELSE "update"
           n == [request[r] EXCEPT !.seen = rows, !.todo = rows, !.step = step]
<1>1. request \in [Request -> RequestState] /\ RequestInv(request[r]) /\ request[r].step = "delete"
      /\ rows \subseteq Row
  BY DEF IInv, TypeOK, BeginDelete
<1>2. request' = [request EXCEPT ![r] = n] /\ UNCHANGED <<role, live, dead>>
  BY <1>1 DEF BeginDelete
<1>3. n \in RequestState /\ n.seen = rows /\ n.todo = rows
  BY <1>1 DEF RequestState, Step
<1>4. n.put = 0 /\ n.answer = "none" /\ request[r].answer = "none"
      /\ n.role = request[r].role /\ n.list = request[r].list
  BY <1>1 DEF RequestInv, RequestState
<1>5. n.step = step
  BY <1>1 DEF RequestState
<1> HIDE DEF n
<1>6. Put(n) = {} /\ n.put <= Len(n.list)
  BY <1>1, <1>3, <1>4, PutCodes DEF RequestInv
<1>7. RequestInv(n)
  BY <1>1, <1>3, <1>4, <1>5, <1>6 DEF RequestInv, Open
<1>8. n.todo \subseteq n.seen /\ \A x \in n.seen : x.role = n.role
  BY <1>3, <1>4
<1> QED
  BY <1>2, <1>3, <1>4, <1>7, <1>8, LocalStep

\* A row that is locked stays in the snapshot.
LEMMA DeleteRowStep ==
  ASSUME IInv, NEW r \in Request, NEW x \in request[r].todo, DeleteRow(r, x)
  PROVE  IInv'
<1> DEFINE step == IF request[r].todo = {x} THEN "insert" ELSE "update"
           n == [request[r] EXCEPT !.todo = @ \ {x}, !.step = step]
<1>1. request \in [Request -> RequestState] /\ RequestInv(request[r]) /\ request[r].step = "update"
  BY DEF IInv, TypeOK, DeleteRow
<1>2. request' = [request EXCEPT ![r] = n] /\ UNCHANGED <<role, live, dead>>
  BY <1>1 DEF DeleteRow
<1>3. n \in RequestState /\ n.todo = request[r].todo \ {x} /\ n.step = step
      /\ n.seen = request[r].seen
  BY <1>1 DEF RequestState, Step
<1>4. n.put = 0 /\ n.answer = "none" /\ request[r].answer = "none"
      /\ n.role = request[r].role /\ n.list = request[r].list
  BY <1>1 DEF RequestInv, RequestState
<1> HIDE DEF n
<1>5. Put(n) = {} /\ n.put <= Len(n.list)
  BY <1>1, <1>3, <1>4, PutCodes DEF RequestInv
<1>6. RequestInv(n)
  BY <1>1, <1>3, <1>4, <1>5 DEF RequestInv, Open
<1>7. n.todo \subseteq n.seen /\ \A y \in n.seen : y.role = n.role
  BY <1>3, <1>4 DEF IInv, TypeOK
<1> QED
  BY <1>2, <1>3, <1>4, <1>6, <1>7, LocalStep

\* The next row is inserted if no row the transaction leaves alone and no other
\* open transaction grants the permission.
LEMMA InsertEffect ==
  ASSUME IInv, NEW r \in Request, InsertRow(r), ~Answers(r, "conflict")
  PROVE  LET q == request[r]
             n == [q EXCEPT !.put = @ + 1]
         IN  /\ q.step = "insert" /\ q.answer = "none"
             /\ request' = [request EXCEPT ![r] = n] /\ UNCHANGED <<role, live, dead>>
             /\ n \in RequestState /\ n.put <= Len(n.list)
             /\ n.step = "insert" /\ n.answer = "none" /\ n.role = q.role
             /\ n.seen = q.seen /\ n.todo = q.todo
             /\ Put(n) = Put(q) \cup {NextCode(r)}
             /\ \A x \in live \ Held(n) : x.role = n.role => x.code # NextCode(r)
             /\ \A p \in Request \ {r} : Open(request[p]) /\ request[p].role = n.role
                                             => NextCode(r) \notin Put(request[p])
<1> DEFINE n == [request[r] EXCEPT !.put = @ + 1]
<1>0. /\ Inserting(r) /\ Adversaries(r) = {} /\ UNCHANGED <<role, live, dead>>
      /\ ~\E x \in (live \ Locked(r)) \cup Inserted(r) : SamePermission(r, x)
      /\ request' = [request EXCEPT ![r] = n]
  BY DEF InsertRow, IInv, TypeOK
<1>1. request[r] \in RequestState /\ request[r].step = "insert" /\ request[r].answer = "none"
      /\ request[r].put \in Nat /\ request[r].list \in Seq(Code)
      /\ request[r].put < Len(request[r].list)
  BY <1>0, ListAssumption DEF IInv, TypeOK, RequestInv, Inserting, RequestState
<1>2. /\ n \in RequestState /\ n.put = request[r].put + 1 /\ n.list = request[r].list
      /\ n.step = "insert" /\ n.answer = "none" /\ n.role = request[r].role
      /\ n.seen = request[r].seen /\ n.todo = request[r].todo
  BY <1>1 DEF RequestState
<1> HIDE DEF n
<1>3. n.put <= Len(n.list)
  BY <1>1, <1>2
<1>4. Put(n) = Put(request[r]) \cup {NextCode(r)}
  <2>1. 1..n.put = (1..request[r].put) \cup {request[r].put + 1}
    BY <1>1, <1>2
  <2> QED
    BY <1>2, <2>1 DEF Put, NextCode
<1>5. \A x \in live \ Held(n) : x.role = n.role => x.code # NextCode(r)
  BY <1>0, <1>2 DEF SamePermission, Locked, Held
<1>6. ASSUME NEW q \in Request \ {r}, Open(request[q]), request[q].role = n.role
      PROVE  NextCode(r) \notin Put(request[q])
  <2>1. SUFFICES ASSUME NextCode(r) \in Put(request[q]) PROVE FALSE
    OBVIOUS
  <2>2. [role |-> n.role, code |-> NextCode(r), by |-> q] \in Inserted(q)
    BY <1>6, <2>1, InsertedIs DEF PutRows
  <2>3. SamePermission(r, [role |-> n.role, code |-> NextCode(r), by |-> q])
    BY <1>2 DEF SamePermission
  <2>4. q \in Adversaries(r)
    BY <1>6, <2>2, <2>3 DEF Adversaries, InTransaction, Open
  <2> QED
    BY <1>0, <2>4
<1> QED
  BY <1>0, <1>1, <1>2, <1>3, <1>4, <1>5, <1>6 DEF n

\* An INSERT adds to what its transaction alone will grant, or rolls it back.
LEMMA InsertRowStep ==
  ASSUME IInv, NEW r \in Request, InsertRow(r)
  PROVE  IInv'
<1>1. CASE Answers(r, "conflict")
  BY <1>1, AnswersStep DEF InsertRow, Inserting
<1>2. CASE ~Answers(r, "conflict")
  <2> DEFINE n == [request[r] EXCEPT !.put = @ + 1]
  <2>1. /\ request[r].step = "insert" /\ request[r].answer = "none"
        /\ request' = [request EXCEPT ![r] = n] /\ UNCHANGED <<role, live, dead>>
        /\ n \in RequestState /\ n.put <= Len(n.list)
        /\ n.step = "insert" /\ n.answer = "none" /\ n.role = request[r].role
        /\ n.seen = request[r].seen /\ n.todo = request[r].todo
        /\ Put(n) = Put(request[r]) \cup {NextCode(r)}
        /\ \A x \in live \ Held(n) : x.role = n.role => x.code # NextCode(r)
        /\ \A q \in Request \ {r} : Open(request[q]) /\ request[q].role = n.role
                                        => NextCode(r) \notin Put(request[q])
    BY <1>2, InsertEffect
  <2> HIDE DEF n
  <2>2. request'[r] = n /\ \A q \in Request \ {r} : request'[q] = request[q]
    BY <2>1 DEF IInv, TypeOK
  <2>3. TypeOK'
    BY <2>1, <2>2 DEF IInv, TypeOK
  <2>4. RequestInv(n)
    BY <2>1 DEF IInv, RequestInv, Held, Open
  <2>5. \A q \in Request : RequestInv(request[q])'
    BY <2>1, <2>2, <2>4 DEF IInv, RequestInv
  <2>6. RowsHaveOrigin'
    BY <2>1, <2>2 DEF IInv, RowsHaveOrigin, TypeOK, Row
  <2>7. NoPermissionTwice'
    BY <2>1 DEF IInv, NoPermissionTwice
  <2>8. InsertsAreApart'
    <3>1. \A q \in Request \ {r} : Open(request[q]) /\ request[q].role = n.role
                                   => Put(n) \cap Put(request[q]) = {}
      BY <2>1 DEF IInv, InsertsAreApart, Open
    <3> QED
      BY <2>2, <3>1 DEF IInv, InsertsAreApart
  <2>9. GrantsAreWhatNobodyReplaced'
    <3>1. \A x : /\ Gained(live' \cup dead', request', x) <=> Gained(live \cup dead, request, x)
                 /\ Lost(request', x) <=> Lost(request, x)
      BY <2>1, <2>2 DEF Gained, Lost
    <3> QED
      BY <2>1, <3>1, GrantsByRow, GrantsByRowNext DEF IInv
  <2> QED
    BY <2>3, <2>5, <2>6, <2>7, <2>8, <2>9 DEF IInv
<1> QED
  BY <1>1, <1>2

\* A commit exchanges the rows of the snapshot for those of the list.
LEMMA CommitEffect ==
  ASSUME IInv, NEW r \in Request, Commit(r)
  PROVE  LET q == request[r]
             n == [q EXCEPT !.step = "answered", !.answer = "replaced"]
         IN  /\ q \in RequestState /\ RequestInv(q) /\ q.step = "insert" /\ q.answer = "none"
             /\ Put(q) = Codes(q.list) /\ Held(q) = q.seen
             /\ PutRows(r, q) \subseteq Row
             /\ live' = (live \ q.seen) \cup PutRows(r, q)
             /\ dead' = dead \cup q.seen
             /\ request' = [request EXCEPT ![r] = n]
             /\ n \in RequestState /\ n.step = "answered" /\ n.answer = "replaced"
             /\ n.role = q.role /\ n.list = q.list /\ n.put = q.put
             /\ n.seen = q.seen /\ n.todo = q.todo
             /\ role' = role
<1> DEFINE q == request[r]
           n == [q EXCEPT !.step = "answered", !.answer = "replaced"]
<1>1. /\ request \in [Request -> RequestState] /\ q \in RequestState /\ RequestInv(q)
      /\ q.step = "insert" /\ q.answer = "none" /\ q.todo = {} /\ q.role \in Role
  BY DEF IInv, TypeOK, RequestInv, Commit
<1>2. q.put \in Nat /\ q.list \in Seq(Code) /\ q.put = Len(q.list)
  BY <1>1, ListAssumption DEF RequestState, RequestInv, Commit, Inserting
<1>3. Put(q) = Codes(q.list) /\ Put(q) \subseteq Code
  BY <1>1, <1>2, PutCodes
<1>4. Held(q) = q.seen /\ Locked(r) = q.seen
  BY <1>1 DEF Held, Locked
<1>5. Inserted(r) = PutRows(r, q) /\ PutRows(r, q) \subseteq Row
  BY <1>1, <1>3, InsertedIs DEF PutRows, Row
<1>6. request' = [request EXCEPT ![r] = n]
  BY <1>1 DEF Commit
<1>7. /\ n \in RequestState /\ n.step = "answered" /\ n.answer = "replaced"
      /\ n.role = q.role /\ n.list = q.list /\ n.put = q.put
      /\ n.seen = q.seen /\ n.todo = q.todo
  BY <1>1 DEF RequestState, Step, Answer
<1> HIDE DEF n, q
<1>8. live' = (live \ q.seen) \cup PutRows(r, q) /\ dead' = dead \cup q.seen /\ role' = role
  BY <1>4, <1>5 DEF Commit
<1> QED
  BY <1>1, <1>3, <1>4, <1>5, <1>6, <1>7, <1>8 DEF n, q

\* A commit takes away what it has seen and adds what nobody else can have seen.
LEMMA CommitStep ==
  ASSUME IInv, NEW r \in Request, Commit(r)
  PROVE  IInv'
<1> DEFINE q == request[r]
           n == [q EXCEPT !.step = "answered", !.answer = "replaced"]
           new == PutRows(r, q)
<1>1. /\ q \in RequestState /\ RequestInv(q) /\ q.step = "insert" /\ q.answer = "none"
      /\ Put(q) = Codes(q.list) /\ Held(q) = q.seen /\ new \subseteq Row
      /\ live' = (live \ q.seen) \cup new /\ dead' = dead \cup q.seen /\ role' = role
      /\ request' = [request EXCEPT ![r] = n]
      /\ n \in RequestState /\ n.step = "answered" /\ n.answer = "replaced"
      /\ n.role = q.role /\ n.list = q.list /\ n.put = q.put
      /\ n.seen = q.seen /\ n.todo = q.todo
  BY CommitEffect
<1>2. \A y \in new : y.role = q.role /\ y.by = r /\ y.code \in Put(q)
  BY DEF PutRows
<1>3. PutRows(r, n) = new /\ Put(n) = Put(q)
  BY <1>1 DEF PutRows, Put
<1> HIDE DEF n, new
<1>4. request \in [Request -> RequestState] /\ request'[r] = n
      /\ \A p \in Request \ {r} : request'[p] = request[p]
  BY <1>1 DEF IInv, TypeOK
<1>5. r # None /\ q.seen \subseteq live \cup dead /\ q.role \in Role /\ role[q.role] # None
  BY <1>1, NoneAssumption DEF RequestInv
<1>6. \A p \in Request : request[p].seen \subseteq live \cup dead
  BY DEF IInv, RequestInv
<1>7. live' \cup dead' = live \cup dead \cup new
  BY <1>1, <1>5
<1>8. \A y \in new : y \notin live \cup dead
  BY <1>1, <1>2, <1>5 DEF IInv, RowsHaveOrigin
<1>9. TypeOK'
  BY <1>1, <1>4, <1>5 DEF IInv, TypeOK
<1>10. \A p \in Request : RequestInv(request[p])'
  <2>1. RequestInv(request[r])'
    BY <1>1, <1>4, <1>5, <1>7 DEF RequestInv, Open
  <2>2. ASSUME NEW p \in Request \ {r} PROVE RequestInv(request[p])'
    <3>1. RequestInv(request[p]) /\ request'[p] = request[p] /\ request[p].seen \subseteq live' \cup dead'
      BY <1>4, <1>6, <1>7 DEF IInv
    <3>2. ASSUME Open(request[p]), NEW x \in live' \ Held(request[p]), x.role = request[p].role
          PROVE  x.code \notin Put(request[p])
      <4>1. CASE x \in live
        BY <3>1, <3>2, <4>1 DEF RequestInv
      <4>2. CASE x \in new
        BY <1>1, <1>2, <3>2, <4>2 DEF IInv, InsertsAreApart, Open
      <4> QED
        BY <1>1, <4>1, <4>2
    <3> QED
      BY <1>1, <3>1, <3>2 DEF RequestInv
  <2> QED
    BY <1>4, <2>1, <2>2
<1>11. RowsHaveOrigin'
  BY <1>1, <1>2, <1>4, <1>5, <1>7 DEF IInv, RowsHaveOrigin, TypeOK, Row
<1>12. NoPermissionTwice'
  <2> SUFFICES ASSUME NEW x \in live', NEW y \in live', x.role = y.role, x.code = y.code
               PROVE  x = y
    BY DEF NoPermissionTwice
  <2>1. \A z \in live \ q.seen : z.role = q.role => z.code \notin Put(q)
    BY <1>1 DEF RequestInv, Open
  <2>2. CASE x \in new /\ y \in new
    BY <1>1, <1>2, <2>2 DEF Row
  <2> QED
    BY <1>1, <1>2, <2>1, <2>2 DEF IInv, NoPermissionTwice
<1>13. InsertsAreApart'
  BY <1>1, <1>4 DEF IInv, InsertsAreApart, Open
<1>14. GrantsAreWhatNobodyReplaced'
  <2> SUFFICES ASSUME NEW x
               PROVE  x \in live' <=> Gained(live' \cup dead', request', x) /\ ~Lost(request', x)
    BY GrantsByRowNext
  <2>1. Gained(live' \cup dead', request', x) <=> Gained(live \cup dead, request, x) \/ x \in new
    BY <1>1, <1>2, <1>3, <1>4, <1>5, <1>7 DEF Gained
  <2>2. Lost(request', x) <=> Lost(request, x) \/ x \in q.seen
    BY <1>1, <1>4 DEF Lost
  <2>3. x \in new => ~Lost(request', x)
    BY <1>5, <1>6, <1>8, <2>2 DEF Lost
  <2>4. x \in live <=> Gained(live \cup dead, request, x) /\ ~Lost(request, x)
    BY GrantsByRow DEF IInv
  <2> QED
    BY <1>1, <2>1, <2>2, <2>3, <2>4
<1> QED
  BY <1>9, <1>10, <1>11, <1>12, <1>13, <1>14 DEF IInv
-----------------------------------------------------------------------------
\* Only a transaction can be part of a deadlock.
LEMMA VictimIsOpen ==
  ASSUME NEW r \in Request, DeadlockVictim(r)
  PROVE  request[r].step \in {"update", "insert"}
<1>1. PICK D \in SUBSET Request : r \in D /\ Deadlocked(D)
  BY DEF DeadlockVictim
<1>2. WaitsFor(r) # {}
  BY <1>1 DEF Deadlocked
<1> QED
  BY <1>2 DEF WaitsFor, Inserting

\* An empty database satisfies the invariant, and ...
LEMMA InitStep == Init => IInv
<1> SUFFICES ASSUME Init PROVE IInv
  OBVIOUS
<1>1. Idle \in RequestState /\ Idle.seen = {} /\ Idle.todo = {} /\ Idle.answer = "none"
  BY ListAssumption DEF Idle, RequestState, Step, Answer
<1>2. Put(Idle) = {}
  BY <1>1, PutCodes DEF Idle
<1>3. RequestInv(Idle)
  BY <1>1, <1>2, ListAssumption DEF RequestInv, Idle, Open
<1>4. \A r \in Request : request[r] = Idle
  BY DEF Init
<1>5. TypeOK
  BY <1>1, <1>4 DEF TypeOK, Init
<1>6. RowsHaveOrigin /\ NoPermissionTwice
  BY DEF Init, RowsHaveOrigin, NoPermissionTwice
<1>7. InsertsAreApart
  BY <1>2, <1>4 DEF InsertsAreApart
<1>8. GrantsAreWhatNobodyReplaced
  BY <1>1, <1>4, GrantsByRow DEF Gained, Init
<1> QED
  BY <1>3, <1>4, <1>5, <1>6, <1>7, <1>8 DEF IInv

\* ... every step preserves it.
LEMMA NextStep == IInv /\ [Next]_vars => IInv'
<1> SUFFICES ASSUME IInv, [Next]_vars PROVE IInv'
  OBVIOUS
<1>1. CASE Boot
  BY <1>1, BootStep
<1>2. ASSUME NEW i \in Role, DeleteRole(i) PROVE IInv'
  BY <1>2, DeleteRoleStep
<1>3. ASSUME NEW i \in Role, NEW k \in Key, CreateRole(i, k) PROVE IInv'
  BY <1>3, CreateRoleStep
<1>4. ASSUME NEW r \in Request, NEW i \in Role, NEW list \in List, Receive(r, i, list) PROVE IInv'
  BY <1>4, ReceiveStep
<1>5. ASSUME NEW r \in Request, FindRole(r) PROVE IInv'
  BY <1>5, FindRoleStep
<1>6. ASSUME NEW r \in Request, CheckCodes(r) PROVE IInv'
  BY <1>6, CheckCodesStep
<1>7. ASSUME NEW r \in Request, BeginDelete(r) PROVE IInv'
  BY <1>7, BeginDeleteStep
<1>8. ASSUME NEW r \in Request, NEW x \in request[r].todo, DeleteRow(r, x) PROVE IInv'
  BY <1>8, DeleteRowStep
<1>9. ASSUME NEW r \in Request, InsertRow(r) PROVE IInv'
  BY <1>9, InsertRowStep
<1>10. ASSUME NEW r \in Request, Commit(r) PROVE IInv'
  BY <1>10, CommitStep
<1>11. ASSUME NEW r \in Request, DeadlockVictim(r) PROVE IInv'
  <2>1. request[r].step \notin {"idle", "answered"}
    BY <1>11, VictimIsOpen
  <2> QED
    BY <1>11, <2>1, AnswersStep DEF DeadlockVictim
<1>12. ASSUME NEW r \in Request, Fail(r) PROVE IInv'
  BY <1>12, AnswersStep DEF Fail
<1>13. CASE UNCHANGED vars
  <2>1. \A r \in Request : RequestInv(request[r])'
    BY <1>13 DEF IInv, RequestInv, vars
  <2>2. GrantsAreWhatNobodyReplaced'
    BY <1>13, GrantsByRow, GrantsByRowNext DEF IInv, vars
  <2> QED
    BY <1>13, <2>1, <2>2
       DEF IInv, TypeOK, RowsHaveOrigin, NoPermissionTwice, InsertsAreApart, vars
<1> QED
  BY <1>1, <1>2, <1>3, <1>4, <1>5, <1>6, <1>7, <1>8, <1>9, <1>10, <1>11, <1>12, <1>13
     DEF Next, Progress
-----------------------------------------------------------------------------
\* The inductive invariant holds in every reachable state.
THEOREM Invariance == Spec => []IInv
<1>1. Init => IInv
  BY InitStep
<1>2. IInv /\ [Next]_vars => IInv'
  BY NextStep
<1> QED
  BY <1>1, <1>2, PTL DEF Spec

\* The tables and the requests keep their types, whatever overlaps.
THEOREM TypeCorrect == Spec => []TypeOK
<1>1. IInv => TypeOK
  BY DEF IInv
<1> QED
  BY <1>1, Invariance, PTL

\* What a role grants is what was written and no replacement that saw it has
\* taken away, for any number of replacements, boots and failures at once.
THEOREM GrantsCorrect == Spec => []GrantsAreWhatNobodyReplaced
<1>1. IInv => GrantsAreWhatNobodyReplaced
  BY DEF IInv
<1> QED
  BY <1>1, Invariance, PTL

\* The waits and refusals of INSERT keep the unique index: no role is ever
\* granted a permission by two rows.
THEOREM PermissionsAreUnique == Spec => []NoPermissionTwice
<1>1. IInv => NoPermissionTwice
  BY DEF IInv
<1> QED
  BY <1>1, Invariance, PTL

\* Rows that are not deleted stay so until a replacement commits.
LEMMA RowsStay ==
  ASSUME IInv, [Next]_vars, ~\E r \in Request : Commit(r)
  PROVE  live \subseteq live'
<1>1. CASE UNCHANGED live
  BY <1>1
<1>2. CASE Boot
  BY <1>2, BootEffect DEF IInv
<1> QED
  BY <1>1, <1>2 DEF Next, Progress, CreateRole, DeleteRole, Receive, FindRole, CheckCodes, BeginDelete,
                    DeleteRow, InsertRow, DeadlockVictim, Fail, Goes, Answers, vars

\* A permission goes only with the commit of a replacement of the role whose
\* list leaves it out.
THEOREM PermissionsGo == Spec => PermissionsGoByReplacement
<1>1. IInv /\ [Next]_vars =>
        [\A i \in Role : \A c \in Granted(i) \ Granted(i)' :
           \E r \in Request : /\ ~Replaced(r) /\ Replaced(r)'
                              /\ request[r].role = i /\ c \notin Codes(request[r].list)]_vars
  <2> SUFFICES ASSUME IInv, [Next]_vars, NEW i \in Role, NEW c \in Granted(i) \ Granted(i)'
               PROVE  \E r \in Request : /\ ~Replaced(r) /\ Replaced(r)'
                                         /\ request[r].role = i /\ c \notin Codes(request[r].list)
    OBVIOUS
  <2>1. PICK x \in live : x.role = i /\ x.code = c
    BY DEF Granted
  <2>2. \A y \in live' : y.role = i => y.code # c
    BY DEF Granted
  <2>3. PICK r \in Request : Commit(r)
    BY <2>1, <2>2, RowsStay
  <2>4. /\ request[r].answer = "none" /\ request'[r].answer = "replaced"
        /\ live' = (live \ request[r].seen) \cup PutRows(r, request[r])
        /\ Put(request[r]) = Codes(request[r].list)
    BY <2>3, CommitEffect DEF IInv, TypeOK
  <2>5. x \in request[r].seen
    BY <2>1, <2>2, <2>4
  <2>6. request[r].role = i
    BY <2>1, <2>5 DEF IInv, TypeOK
  <2>7. ASSUME c \in Codes(request[r].list) PROVE FALSE
    <3>1. [role |-> i, code |-> c, by |-> r] \in live'
      BY <2>4, <2>6, <2>7 DEF PutRows
    <3> QED
      BY <2>2, <3>1
  <2> QED
    BY <2>4, <2>6, <2>7 DEF Replaced
<1> QED
  BY <1>1, Invariance, PTL DEF Spec, PermissionsGoByReplacement
=============================================================================

----------------------- MODULE PermissionRefinementProofs -------------------
(***************************************************************************)
(* The rows of role_permissions implement PermissionSets for every number  *)
(* of roles, codes, lists and overlapping replacements.                    *)
(*                                                                         *)
(* A transaction opens with the snapshot of its UPDATE and replaces with   *)
(* its commit; what it spares are the live rows of the role its snapshot   *)
(* lacks.  Two open replacements agree on what they spare because no       *)
(* permission is granted by two rows.                                      *)
(***************************************************************************)
EXTENDS RolePermissionsProofs

\* The permissions some rows grant to a role, and the replacement a request
\* has open over them.
CodesOf(rows, i) == {x.code : x \in {y \in rows : y.role = i}}
Spared(rows, q) == {x.code : x \in {y \in rows : y.role = q.role} \ q.seen}
AsReplacement(rows, q) ==
  IF Open(q) THEN [role |-> q.role, list |-> Codes(q.list), survive |-> Spared(rows, q)] ELSE None

\* The permissions of a role, in these terms.
LEMMA GrantedIs == ASSUME NEW i \in Role PROVE Granted(i) = CodesOf(live, i)
BY DEF Granted, CodesOf

\* The same of the state after a step.
LEMMA GrantedIsNext == ASSUME NEW i \in Role PROVE Granted(i)' = CodesOf(live', i)
BY DEF Granted, CodesOf

\* The replacement a request has open, in these terms.
LEMMA OpenIs == ASSUME NEW r \in Request PROVE OpenReplacement(r) = AsReplacement(live, request[r])
BY DEF OpenReplacement, AsReplacement, InTransaction, Open, Spared

\* The same of the state after a step.
LEMMA OpenIsNext == ASSUME NEW r \in Request PROVE OpenReplacement(r)' = AsReplacement(live', request'[r])
BY DEF OpenReplacement, AsReplacement, InTransaction, Open, Spared

\* Both abstract variables, now and next.
LEMMA Mapping ==
  /\ [i \in Role |-> Granted(i)] = [i \in Role |-> CodesOf(live, i)]
  /\ [i \in Role |-> Granted(i)]' = [i \in Role |-> CodesOf(live', i)]
  /\ [r \in Request |-> OpenReplacement(r)] = [r \in Request |-> AsReplacement(live, request[r])]
  /\ [r \in Request |-> OpenReplacement(r)]' = [r \in Request |-> AsReplacement(live', request'[r])]
BY GrantedIs, GrantedIsNext, OpenIs, OpenIsNext

\* A replacement that is open is no absent one.
LEMMA OpenIsSome ==
  ASSUME NEW q \in RequestState, q.role \in Role, live \subseteq Row, Open(q)
  PROVE  /\ AsReplacement(live, q) # None
         /\ AsReplacement(live, q) = [role |-> q.role, list |-> Codes(q.list), survive |-> Spared(live, q)]
<1>1. Codes(q.list) \in SUBSET Code
  BY ListAssumption DEF RequestState, Codes
<1>2. Spared(live, q) \in SUBSET Code
  BY DEF Spared, Row
<1>3. AsReplacement(live, q) \in Sets!Replacement
  BY <1>1, <1>2 DEF AsReplacement, Sets!Replacement
<1> QED
  BY <1>3, ReplacementAssumption DEF AsReplacement

\* A step of one request that leaves the rows alone shows only in what the
\* request has open.
LEMMA LocalChange ==
  ASSUME TypeOK, NEW r \in Request, NEW n,
         request' = [request EXCEPT ![r] = n], live' = live
  PROVE  /\ [i \in Role |-> Granted(i)]' = [i \in Role |-> Granted(i)]
         /\ [q \in Request |-> OpenReplacement(q)]' =
              [[q \in Request |-> OpenReplacement(q)] EXCEPT ![r] = AsReplacement(live, n)]
BY Mapping DEF TypeOK
-----------------------------------------------------------------------------
\* The snapshot of the UPDATE opens the replacement, which spares nothing yet.
LEMMA SnapshotOpens ==
  ASSUME IInv, NEW r \in Request, BeginDelete(r)
  PROVE  Sets!Open(r, request[r].role, Codes(request[r].list))
<1> DEFINE rows == {x \in live \cup dead : x.role = request[r].role}
           step == IF rows = {} THEN "insert" ELSE "update"
           n == [request[r] EXCEPT !.seen = rows, !.todo = rows, !.step = step]
<1>1. request[r] \in RequestState /\ request[r].step = "delete"
  BY DEF IInv, TypeOK, BeginDelete
<1>2. request' = [request EXCEPT ![r] = n] /\ live' = live
  BY DEF IInv, TypeOK, BeginDelete
<1>3. n.role = request[r].role /\ n.list = request[r].list /\ n.seen = rows /\ n.step = step
  BY <1>1 DEF RequestState
<1> HIDE DEF n
<1>4. Spared(live, n) = {} /\ Open(n)
  BY <1>3 DEF Spared, Open
<1>5. AsReplacement(live, n) = [role |-> request[r].role, list |-> Codes(request[r].list), survive |-> {}]
  BY <1>3, <1>4 DEF AsReplacement
<1>6. OpenReplacement(r) = None
  BY <1>1, OpenIs DEF AsReplacement, Open
<1> QED
  BY <1>2, <1>5, <1>6, LocalChange DEF Sets!Open, IInv

\* A step that leaves alone what the request spares is invisible.
LEMMA LocalStutter ==
  ASSUME TypeOK, NEW r \in Request, NEW n,
         request' = [request EXCEPT ![r] = n], live' = live,
         AsReplacement(live, n) = AsReplacement(live, request[r])
  PROVE  UNCHANGED Sets!vars
<1>1. OpenReplacement(r) = AsReplacement(live, n)
  BY OpenIs
<1> QED
  BY <1>1, LocalChange DEF Sets!vars

\* A transaction that is rolled back abandons its replacement; a request that
\* is refused earlier has none.
LEMMA AnswerAbandons ==
  ASSUME IInv, NEW r \in Request, NEW answer \in {"notFound", "unknown", "conflict", "failed"},
         Answers(r, answer)
  PROVE  Sets!Abandon(r) \/ UNCHANGED Sets!vars
<1> DEFINE n == [request[r] EXCEPT !.step = "answered", !.answer = answer,
                                   !.seen = {}, !.todo = {}, !.put = 0]
<1>1. request[r] \in RequestState /\ request' = [request EXCEPT ![r] = n] /\ live' = live
  BY DEF IInv, TypeOK, Answers
<1>2. n.step = "answered"
  BY <1>1 DEF RequestState
<1> HIDE DEF n
<1>3. AsReplacement(live, n) = None
  BY <1>2 DEF AsReplacement, Open
<1>4. CASE Open(request[r])
  <2>1. OpenReplacement(r) # None
    BY <1>1, <1>4, OpenIs, OpenIsSome DEF IInv, TypeOK, RequestInv, Open
  <2> QED
    BY <1>1, <1>3, <2>1, LocalChange DEF Sets!Abandon, IInv
<1>5. CASE ~Open(request[r])
  <2>1. AsReplacement(live, n) = AsReplacement(live, request[r])
    BY <1>3, <1>5 DEF AsReplacement
  <2> QED
    BY <1>1, <2>1, LocalStutter DEF IInv
<1> QED
  BY <1>4, <1>5

\* The steps before the transaction, and those within it.
LEMMA EarlyStutter ==
  ASSUME IInv, NEW r \in Request,
         \/ \E i \in Role, list \in List : Receive(r, i, list)
         \/ FindRole(r) /\ Goes(r, "codes")
         \/ CheckCodes(r) /\ Goes(r, "delete")
  PROVE  UNCHANGED Sets!vars
<1>1. request[r] \in RequestState /\ ~Open(request[r])
  BY DEF IInv, TypeOK, Receive, FindRole, CheckCodes, Open
<1>2. AsReplacement(live, request[r]) = None
  BY <1>1 DEF AsReplacement
<1>3. ASSUME NEW n, request' = [request EXCEPT ![r] = n], live' = live, ~Open(n)
      PROVE  UNCHANGED Sets!vars
  <2>1. AsReplacement(live, n) = AsReplacement(live, request[r])
    BY <1>2, <1>3 DEF AsReplacement
  <2> QED
    BY <1>3, <2>1, LocalStutter DEF IInv
<1>4. ASSUME NEW i \in Role, NEW list \in List, Receive(r, i, list) PROVE UNCHANGED Sets!vars
  <2> DEFINE n == [request[r] EXCEPT !.step = "role", !.role = i, !.list = list]
  <2>1. request' = [request EXCEPT ![r] = n] /\ live' = live
    BY <1>4 DEF IInv, TypeOK, Receive
  <2>2. ~Open(n)
    BY <1>1 DEF RequestState, Open
  <2> QED
    BY <1>3, <2>1, <2>2
<1>5. ASSUME NEW step \in {"codes", "delete"}, Goes(r, step) PROVE UNCHANGED Sets!vars
  <2> DEFINE n == [request[r] EXCEPT !.step = step]
  <2>1. request' = [request EXCEPT ![r] = n] /\ live' = live
    BY <1>5 DEF IInv, TypeOK, Goes
  <2>2. ~Open(n)
    BY <1>1 DEF RequestState, Open
  <2> QED
    BY <1>3, <2>1, <2>2
<1> QED
  BY <1>4, <1>5

\* Locking a row and inserting one change nothing others can see.
LEMMA LockStutter ==
  ASSUME IInv, NEW r \in Request,
         \/ \E x \in request[r].todo : DeleteRow(r, x)
         \/ InsertRow(r) /\ ~Answers(r, "conflict")
  PROVE  UNCHANGED Sets!vars
<1>1. request[r] \in RequestState /\ Open(request[r])
  BY DEF IInv, TypeOK, DeleteRow, InsertRow, Inserting, Open
<1>2. ASSUME NEW n, request' = [request EXCEPT ![r] = n], live' = live, Open(n),
             n.role = request[r].role, n.list = request[r].list, n.seen = request[r].seen
      PROVE  UNCHANGED Sets!vars
  <2>1. AsReplacement(live, n) = AsReplacement(live, request[r])
    BY <1>1, <1>2 DEF AsReplacement, Spared
  <2> QED
    BY <1>2, <2>1, LocalStutter DEF IInv
<1>3. ASSUME NEW x \in request[r].todo, DeleteRow(r, x) PROVE UNCHANGED Sets!vars
  <2> DEFINE step == IF request[r].todo = {x} THEN "insert" ELSE "update"
             n == [request[r] EXCEPT !.todo = @ \ {x}, !.step = step]
  <2>1. request' = [request EXCEPT ![r] = n] /\ live' = live
    BY <1>3 DEF IInv, TypeOK, DeleteRow
  <2>2. Open(n) /\ n.role = request[r].role /\ n.list = request[r].list /\ n.seen = request[r].seen
    BY <1>1 DEF RequestState, Open
  <2> HIDE DEF n
  <2> QED
    BY <1>2, <2>1, <2>2
<1>4. ASSUME InsertRow(r), ~Answers(r, "conflict") PROVE UNCHANGED Sets!vars
  <2> DEFINE n == [request[r] EXCEPT !.put = @ + 1]
  <2>1. request' = [request EXCEPT ![r] = n] /\ live' = live
    BY <1>4 DEF IInv, TypeOK, InsertRow
  <2>2. Open(n) /\ n.role = request[r].role /\ n.list = request[r].list /\ n.seen = request[r].seen
    BY <1>1 DEF RequestState, Open
  <2> HIDE DEF n
  <2> QED
    BY <1>2, <2>1, <2>2
<1> QED
  BY <1>3, <1>4
-----------------------------------------------------------------------------
\* What a commit leaves in place for the roles, ...
LEMMA CommitGrants ==
  ASSUME IInv, NEW r \in Request, Commit(r), NEW i \in Role
  PROVE  CodesOf(live', i) = IF i = request[r].role
                             THEN Codes(request[r].list) \cup Spared(live, request[r])
                             ELSE CodesOf(live, i)
<1> DEFINE q == request[r]
<1>1. live' = (live \ q.seen) \cup PutRows(r, q) /\ Put(q) = Codes(q.list)
  BY CommitEffect
<1>2. \A y \in PutRows(r, q) : y.role = q.role /\ y.code \in Codes(q.list)
  BY <1>1 DEF PutRows
<1>3. \A c \in Codes(q.list) : \E y \in PutRows(r, q) : y.role = q.role /\ y.code = c
  <2> SUFFICES ASSUME NEW c \in Codes(q.list)
               PROVE  \E y \in PutRows(r, q) : y.role = q.role /\ y.code = c
    OBVIOUS
  <2>1. [role |-> q.role, code |-> c, by |-> r] \in PutRows(r, q)
    BY <1>1 DEF PutRows
  <2> QED
    BY <2>1
<1>4. \A x \in q.seen : x.role = q.role
  BY DEF IInv, TypeOK
<1> HIDE DEF q
<1>5. CASE i = q.role
  <2>1. CodesOf(live', i) = Codes(q.list) \cup Spared(live, q)
    BY <1>1, <1>2, <1>3, <1>5 DEF CodesOf, Spared
  <2> QED
    BY <1>5, <2>1 DEF q
<1>6. CASE i # q.role
  <2>1. CodesOf(live', i) = CodesOf(live, i)
    BY <1>1, <1>2, <1>4, <1>6 DEF CodesOf
  <2> QED
    BY <1>6, <2>1 DEF q
<1> QED
  BY <1>5, <1>6

\* ... and for the replacements that stay open: of what they spared, what the
\* commit left, and what it wrote, which they cannot have seen.
LEMMA CommitSpares ==
  ASSUME IInv, NEW r \in Request, Commit(r), NEW p \in Request \ {r}, Open(request[p])
  PROVE  Spared(live', request[p]) =
           IF request[p].role = request[r].role
           THEN (Spared(live, request[p])
                   \cap (Codes(request[r].list) \cup Spared(live, request[r])))
                 \cup Codes(request[r].list)
           ELSE Spared(live, request[p])
<1> DEFINE q == request[r]
           o == request[p]
           new == PutRows(r, q)
<1>1. /\ live' = (live \ q.seen) \cup new /\ Put(q) = Codes(q.list)
      /\ q.answer = "none"
  BY CommitEffect
<1>2. \A y \in new : y.role = q.role /\ y.code \in Codes(q.list) /\ y.by = r
  BY <1>1 DEF PutRows
<1>3. \A c \in Codes(q.list) : \E y \in new : y.role = q.role /\ y.code = c
  <2> SUFFICES ASSUME NEW c \in Codes(q.list)
               PROVE  \E y \in new : y.role = q.role /\ y.code = c
    OBVIOUS
  <2>1. [role |-> q.role, code |-> c, by |-> r] \in new
    BY <1>1 DEF PutRows
  <2> QED
    BY <2>1
<1>4. /\ \A x \in q.seen : x.role = q.role
      /\ o.seen \subseteq live \cup dead
      /\ \A x, y \in live : x.role = y.role /\ x.code = y.code => x = y
  BY DEF IInv, TypeOK, RequestInv, NoPermissionTwice
<1>5. \A y \in new : y \notin o.seen
  BY <1>1, <1>2, <1>4, NoneAssumption DEF IInv, RowsHaveOrigin
<1> HIDE DEF q, o, new
<1>6. CASE o.role = q.role
  <2> DEFINE left == Codes(q.list) \cup Spared(live, q)
  <2>1. Spared(live', o) \subseteq (Spared(live, o) \cap left) \cup Codes(q.list)
    BY <1>1, <1>2, <1>6 DEF Spared
  <2>2. Codes(q.list) \subseteq Spared(live', o)
    BY <1>1, <1>3, <1>5, <1>6 DEF Spared
  <2>3. Spared(live, o) \cap Spared(live, q) \subseteq Spared(live', o)
    <3> SUFFICES ASSUME NEW c \in Spared(live, o) \cap Spared(live, q) PROVE c \in Spared(live', o)
      OBVIOUS
    <3>1. PICK x \in live \ o.seen : x.role = o.role /\ x.code = c
      BY DEF Spared
    <3>2. PICK y \in live \ q.seen : y.role = q.role /\ y.code = c
      BY DEF Spared
    <3>3. x = y
      BY <1>4, <1>6, <3>1, <3>2
    <3> QED
      BY <1>1, <3>1, <3>2, <3>3 DEF Spared
  <2>4. Spared(live', o) = (Spared(live, o) \cap left) \cup Codes(q.list)
    BY <2>1, <2>2, <2>3
  <2> QED
    BY <1>6, <2>4 DEF q, o
<1>7. CASE o.role # q.role
  <2>1. Spared(live', o) = Spared(live, o)
    BY <1>1, <1>2, <1>4, <1>7 DEF Spared
  <2> QED
    BY <1>7, <2>1 DEF q, o
<1> QED
  BY <1>6, <1>7

\* A commit is the replacement, at one moment.
LEMMA CommitReplaces ==
  ASSUME IInv, NEW r \in Request, Commit(r)
  PROVE  Sets!Replace(r)
<1> DEFINE q == request[r]
           left == Codes(q.list) \cup Spared(live, q)
           granted == [i \in Role |-> Granted(i)]
           open == [p \in Request |-> OpenReplacement(p)]
           after(p) == IF p = r THEN None
                       ELSE IF open[p] # None /\ open[p].role = open[r].role
                            THEN [open[p] EXCEPT !.survive =
                                    (@ \cap (open[r].list \cup open[r].survive)) \cup open[r].list]
                            ELSE open[p]
<1>0. /\ q \in RequestState /\ RequestInv(q) /\ q.step = "insert"
      /\ request' = [request EXCEPT ![r] = [q EXCEPT !.step = "answered", !.answer = "replaced"]]
      /\ request \in [Request -> RequestState]
  BY CommitEffect DEF IInv, TypeOK
<1>1. /\ q \in RequestState /\ q.role \in Role /\ Open(q) /\ request'[r].step = "answered"
      /\ \A p \in Request \ {r} : request'[p] = request[p] /\ request[p] \in RequestState
  BY <1>0 DEF RequestInv, Open, RequestState
<1>2. open[r] # None
      /\ open[r] = [role |-> q.role, list |-> Codes(q.list), survive |-> Spared(live, q)]
  BY <1>1, OpenIs, OpenIsSome DEF IInv, TypeOK
<1>3. granted' = [granted EXCEPT ![q.role] = left]
  <2>1. granted = [i \in Role |-> CodesOf(live, i)] /\ granted' = [i \in Role |-> CodesOf(live', i)]
    BY Mapping
  <2>2. \A i \in Role : CodesOf(live', i) = IF i = q.role THEN left ELSE CodesOf(live, i)
    BY CommitGrants
  <2> QED
    BY <1>1, <2>1, <2>2
<1>4. AsReplacement(live', request'[r]) = None
  BY <1>1 DEF AsReplacement, Open
<1>5. ASSUME NEW p \in Request \ {r}
      PROVE  AsReplacement(live', request'[p]) = after(p)
  <2>1. CASE ~Open(request[p])
    <3>1. open[p] = None /\ AsReplacement(live', request'[p]) = None
      BY <1>1, <2>1, OpenIs DEF AsReplacement
    <3> QED
      BY <3>1
  <2>2. CASE Open(request[p])
    <3>1. request[p].role \in Role
      BY <2>2 DEF IInv, RequestInv, Open
    <3>2. /\ open[p] # None
          /\ open[p] = [role |-> request[p].role, list |-> Codes(request[p].list),
                        survive |-> Spared(live, request[p])]
      BY <1>1, <2>2, <3>1, OpenIs, OpenIsSome DEF IInv, TypeOK
    <3>3. AsReplacement(live', request'[p]) =
            [role |-> request[p].role, list |-> Codes(request[p].list),
             survive |-> Spared(live', request[p])]
      BY <1>1, <2>2 DEF AsReplacement
    <3> QED
      BY <1>2, <2>2, <3>2, <3>3, CommitSpares
  <2> QED
    BY <2>1, <2>2
<1>6. open' = [p \in Request |-> after(p)]
  BY <1>4, <1>5, Mapping
<1>7. granted' = [granted EXCEPT ![open[r].role] = open[r].list \cup open[r].survive]
  <2>1. open[r].role = q.role /\ open[r].list \cup open[r].survive = left
    BY <1>2
  <2> HIDE DEF granted, open, left
  <2> QED
    BY <1>3, <2>1
<1> QED
  BY <1>2, <1>6, <1>7 DEF Sets!Replace

\* A boot seeds roles that had no permissions and no open replacement.
LEMMA BootSeeds ==
  ASSUME IInv, IInv', Boot
  PROVE  Sets!Seed
<1> DEFINE granted == [i \in Role |-> Granted(i)]
           open == [p \in Request |-> OpenReplacement(p)]
<1>1. PICK new \in SUBSET Row :
        /\ live' = live \cup new
        /\ \A x \in new : role[x.role] = None
  BY BootEffect DEF IInv
<1>2. request' = request
  BY DEF Boot
<1>3. granted = [i \in Role |-> CodesOf(live, i)] /\ granted' = [i \in Role |-> CodesOf(live', i)]
      /\ open = [p \in Request |-> AsReplacement(live, request[p])]
      /\ open' = [p \in Request |-> AsReplacement(live', request'[p])]
  BY Mapping
<1>4. \A i \in Role : CodesOf(live', i) \in SUBSET Code
  BY DEF IInv, TypeOK, CodesOf, Row
<1>5. ASSUME NEW i \in Role, CodesOf(live', i) # CodesOf(live, i)
      PROVE  role[i] = None /\ CodesOf(live, i) = {}
  <2>1. role[i] = None
    BY <1>1, <1>5 DEF CodesOf
  <2> QED
    BY <2>1 DEF IInv, RowsHaveOrigin, CodesOf
<1>6. ASSUME NEW p \in Request, Open(request[p])
      PROVE  /\ role[request[p].role] # None
             /\ AsReplacement(live, request[p]).role = request[p].role
             /\ AsReplacement(live', request[p]) = AsReplacement(live, request[p])
  <2>1. role[request[p].role] # None
    BY <1>6 DEF IInv, RequestInv, Open
  <2>2. Spared(live', request[p]) = Spared(live, request[p])
    BY <1>1, <2>1 DEF Spared
  <2> QED
    BY <1>6, <2>1, <2>2 DEF AsReplacement
<1>7. open' = open
  <2>1. \A p \in Request : AsReplacement(live', request'[p]) = AsReplacement(live, request[p])
    BY <1>2, <1>6 DEF AsReplacement
  <2> HIDE DEF open
  <2> QED
    BY <1>3, <2>1
<1>8. ASSUME NEW p \in Request, open[p] # None
      PROVE  role[open[p].role] # None
  <2>1. Open(request[p]) /\ open[p] = AsReplacement(live, request[p])
    BY <1>3, <1>8 DEF AsReplacement
  <2> HIDE DEF open
  <2> QED
    BY <1>6, <2>1
<1>9. granted' \in [Role -> SUBSET Code]
  BY <1>3, <1>4
<1>10. \A i \in Role : granted'[i] # granted[i] =>
         granted[i] = {} /\ \A p \in Request : open[p] # None => open[p].role # i
  <2>1. \A i \in Role : granted'[i] = CodesOf(live', i) /\ granted[i] = CodesOf(live, i)
    BY <1>3
  <2> HIDE DEF granted, open
  <2> QED
    BY <1>5, <1>8, <2>1
<1> QED
  BY <1>7, <1>9, <1>10 DEF Sets!Seed
-----------------------------------------------------------------------------
\* Every step of the rows is a step of the sets or a stutter.
LEMMA StepRefines ==
  ASSUME IInv, IInv', [Next]_vars
  PROVE  Sets!Next \/ UNCHANGED Sets!vars
<1>1. CASE Boot
  BY <1>1, BootSeeds DEF Sets!Next
<1>2. CASE UNCHANGED <<live, request>>
  BY <1>2, Mapping DEF Sets!vars
<1>3. ASSUME NEW r \in Request, BeginDelete(r) PROVE Sets!Next
  <2>1. request[r] \in RequestState /\ request[r].role \in Role
    BY <1>3 DEF IInv, TypeOK, RequestInv, BeginDelete
  <2>2. request[r].list \in Seq(Code)
    BY <2>1, ListAssumption DEF RequestState
  <2>3. Codes(request[r].list) \in SUBSET Code
    BY <2>2 DEF Codes
  <2> QED
    BY <1>3, <2>1, <2>3, SnapshotOpens DEF Sets!Next
<1>4. ASSUME NEW r \in Request, Commit(r) PROVE Sets!Next
  BY <1>4, CommitReplaces DEF Sets!Next
<1>5. ASSUME NEW r \in Request, NEW answer \in {"notFound", "unknown", "conflict", "failed"},
             Answers(r, answer)
      PROVE  Sets!Next \/ UNCHANGED Sets!vars
  BY <1>5, AnswerAbandons DEF Sets!Next
<1>6. ASSUME NEW r \in Request,
             \/ \E i \in Role, list \in List : Receive(r, i, list)
             \/ FindRole(r) \/ CheckCodes(r)
      PROVE  Sets!Next \/ UNCHANGED Sets!vars
  BY <1>5, <1>6, EarlyStutter DEF FindRole, CheckCodes
<1>7. ASSUME NEW r \in Request,
             \/ \E x \in request[r].todo : DeleteRow(r, x)
             \/ InsertRow(r)
      PROVE  Sets!Next \/ UNCHANGED Sets!vars
  BY <1>5, <1>7, LockStutter
<1>8. ASSUME NEW r \in Request, DeadlockVictim(r) \/ Fail(r)
      PROVE  Sets!Next \/ UNCHANGED Sets!vars
  BY <1>5, <1>8 DEF DeadlockVictim, Fail
<1> QED
  BY <1>1, <1>2, <1>3, <1>4, <1>6, <1>7, <1>8 DEF Next, Progress, CreateRole, DeleteRole, vars

\* The rows, snapshots and locks of overlapping replacements implement sets
\* that are replaced at one moment.
THEOREM Refinement == Spec => RefinesPermissionSets
<1>1. Init => Sets!Init
  <2> SUFFICES ASSUME Init PROVE Sets!Init
    OBVIOUS
  <2>1. \A i \in Role : CodesOf(live, i) = {}
    BY DEF Init, CodesOf
  <2>2. \A r \in Request : AsReplacement(live, request[r]) = None
    BY DEF Init, Idle, AsReplacement, Open
  <2> QED
    BY <2>1, <2>2, Mapping DEF Sets!Init
<1>2. IInv /\ IInv' /\ [Next]_vars => [Sets!Next]_(Sets!vars)
  BY StepRefines
<1> QED
  BY <1>1, <1>2, Invariance, PTL DEF Spec, RefinesPermissionSets, Sets!Spec
=============================================================================

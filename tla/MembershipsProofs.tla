-------------------------- MODULE MembershipsProofs -------------------------
(***************************************************************************)
(* Proofs about Memberships, for every number of organizations, users,     *)
(* roles and overlapping requests.                                         *)
(*                                                                         *)
(* The argument: the owner role is never deleted and never has a rival, so *)
(* the predicate "is the owner role" is the same in every state; a request *)
(* that is about to write works on a row that does not hold the owner role *)
(* and gives it none, however stale what it read is; so no row gains or    *)
(* loses the owner role after its organization was created.                *)
(*                                                                         *)
(* What needs fresh reads is proved of requests that come in turn: then    *)
(* the one request in flight is the only writer of what it has read.       *)
(***************************************************************************)
EXTENDS Memberships, FiniteSetTheorems, TLAPS

OwnerRoles == {i \in RoleId : IsOwnerRole(i)}

\* The owner role is there, once, and is never soft-deleted.
CatalogInv ==
  /\ OwnerRoles # {}
  /\ KeysAreUnique
  /\ \A i \in RoleId : role[i] # None /\ role[i].key = OwnerKey => ~role[i].deleted

\* What a request knows for certain at each of its steps.
RequestInv(q) ==
  /\ q.op = "none" <=> q.step = "idle"
  /\ q.step \in {"caller", "permission", "newRole", "target", "currentRole", "owners"}
       => q.op \in {"change", "remove"}
  /\ q.step \in {"role", "members"} => q.op \in {"deleteRole", "updateRole", "permissions"}
  /\ q.step = "newRole" => q.op = "change"
  /\ q.step = "members" => q.op = "deleteRole"
  /\ q.step = "key" => q.op = "createRole"
  /\ q.op \in {"change", "remove"} => q.target \in Seat
  /\ q.step \in {"caller", "permission"} => q.caller \in Seat
  /\ q.op \in {"change", "deleteRole", "updateRole", "permissions"} => q.role \in RoleId
  /\ q.op = "createRole" => q.key \in Key
  /\ q.op = "change" /\ q.step \notin {"caller", "permission", "newRole"}
       => q.role \notin OwnerRoles
  /\ q.step = "currentRole" =>
       /\ member[q.target] # None
       /\ q.read \in OwnerRoles <=> member[q.target].role \in OwnerRoles
  /\ q.step = "owners" => q.read \in OwnerRoles
  /\ q.op \in {"change", "remove"} /\ q.step \in {"write", "update"} =>
       /\ member[q.target] # None
       /\ member[q.target].role \notin OwnerRoles
  /\ q.op \in {"deleteRole", "updateRole", "permissions"} /\ q.step \in {"members", "write", "update"}
       => role[q.role] # None
  /\ q.op = "deleteRole" /\ q.step \in {"members", "write"} => q.role \notin OwnerRoles

IInv ==
  /\ TypeOK
  /\ CatalogInv
  /\ SingleOwner
  /\ \A r \in Request : RequestInv(request[r])

\* What every step does to the tables: rows stay, the owner role stays what it
\* is, and a membership row neither gains nor loses it; the owner's row is
\* left alone.
TablesGrow ==
  /\ OwnerRoles' = OwnerRoles
  /\ \A i \in RoleId : role[i] # None => role'[i] # None
  /\ \A p \in Seat : member[p] # None => member'[p] # None
  /\ \A p \in Seat : member[p] # None /\ member[p].role \in OwnerRoles => member'[p] = member[p]
  /\ \A p \in Seat : member[p] # None /\ member[p].role \notin OwnerRoles
                              => member'[p].role \notin OwnerRoles
  /\ \A o \in Org : Created(o) => \A u \in User : member[<<o, u>>] = None => member'[<<o, u>>] = None
-----------------------------------------------------------------------------
\* There is one owner role.
LEMMA OneOwnerRole ==
  ASSUME CatalogInv, NEW i \in OwnerRoles, NEW j \in OwnerRoles
  PROVE  i = j
BY DEF CatalogInv, OwnerRoles, KeysAreUnique, IsOwnerRole

LEMMA OwnersAre ==
  ASSUME NEW o \in Org
  PROVE  Owners(o) = {u \in User : <<o, u>> \in ActiveMember /\ member[<<o, u>>].role \in OwnerRoles}
BY DEF Owners, OwnerRoles, IsOwnerRole, ActiveRole

\* What a request knows stays true while it is not served.
LEMMA RequestFrame ==
  ASSUME NEW q \in RequestState, RequestInv(q), TablesGrow
  PROVE  RequestInv(q)'
<1>1. OwnerRoles' = OwnerRoles
  BY DEF TablesGrow
<1>2. q.step = "currentRole" =>
        /\ member'[q.target] # None
        /\ q.read \in OwnerRoles <=> member'[q.target].role \in OwnerRoles
  BY DEF RequestInv, TablesGrow
<1>3. q.op \in {"change", "remove"} /\ q.step \in {"write", "update"} =>
        /\ member'[q.target] # None
        /\ member'[q.target].role \notin OwnerRoles
  BY DEF RequestInv, TablesGrow
<1>4. q.op \in {"deleteRole", "updateRole", "permissions"}
        /\ q.step \in {"members", "write", "update"} => role'[q.role] # None
  BY DEF RequestInv, TablesGrow
<1> QED
  BY <1>1, <1>2, <1>3, <1>4 DEF RequestInv

LEMMA IdleState == Idle \in RequestState /\ RequestInv(Idle)
BY DEF Idle, RequestState, RequestInv, Op, Step

\* Such steps leave the owners of every created organization as they are.
LEMMA OwnersFrame ==
  ASSUME TypeOK, TablesGrow, NEW o \in Org, Created(o)
  PROVE  Owners(o)' = Owners(o)
<1>1. \A u \in User : <<o, u>> \in Seat
  BY DEF Seat
<1>2. Owners(o)' = {u \in User : <<o, u>> \in ActiveMember' /\ member'[<<o, u>>].role \in OwnerRoles}
  BY DEF TablesGrow, Owners, OwnerRoles, IsOwnerRole, ActiveRole
<1>3. \A u \in User :
        <<o, u>> \in ActiveMember' /\ member'[<<o, u>>].role \in OwnerRoles
          <=> <<o, u>> \in ActiveMember /\ member[<<o, u>>].role \in OwnerRoles
  <2> SUFFICES ASSUME NEW u \in User
               PROVE  <<o, u>> \in ActiveMember' /\ member'[<<o, u>>].role \in OwnerRoles
                        <=> <<o, u>> \in ActiveMember /\ member[<<o, u>>].role \in OwnerRoles
    OBVIOUS
  <2>1. CASE member[<<o, u>>] = None
    BY <1>1, <2>1 DEF TablesGrow, ActiveMember
  <2>2. CASE member[<<o, u>>] # None /\ member[<<o, u>>].role \in OwnerRoles
    BY <1>1, <2>2 DEF TablesGrow, ActiveMember
  <2>3. CASE member[<<o, u>>] # None /\ member[<<o, u>>].role \notin OwnerRoles
    BY <1>1, <2>3 DEF TablesGrow, ActiveMember
  <2> QED
    BY <2>1, <2>2, <2>3
<1> QED
  BY <1>2, <1>3, OwnersAre

\* A step that changes one request and keeps the tables.
LEMMA RequestStep ==
  ASSUME IInv, NEW r \in Request, NEW q \in RequestState, RequestInv(q),
         request' = [request EXCEPT ![r] = q],
         UNCHANGED <<member, role>>
  PROVE  IInv' /\ TablesGrow
<1>1. TypeOK' /\ CatalogInv' /\ SingleOwner' /\ TablesGrow
  BY DEF IInv, TypeOK, CatalogInv, SingleOwner, TablesGrow, OwnerRoles, IsOwnerRole, KeysAreUnique,
         ActiveRole, ActiveMember, Owners, Created
<1>2. \A p \in Request : request'[p] = IF p = r THEN q ELSE request[p]
  BY DEF IInv, TypeOK
<1>3. \A p \in Request : request[p] \in RequestState
  BY DEF IInv, TypeOK
<1> HIDE DEF RequestInv
<1>4. ASSUME NEW p \in Request
      PROVE  RequestInv(request[p])'
  <2>1. CASE p = r
    <3>1. RequestInv(q)'
      BY <1>1, RequestFrame
    <3> QED
      BY <1>2, <2>1, <3>1
  <2>2. CASE p # r
    <3>1. PICK s \in RequestState : s = request[p]
      BY <1>3
    <3>2. RequestInv(s)'
      BY <1>1, <3>1, RequestFrame DEF IInv
    <3> QED
      BY <1>2, <2>2, <3>1, <3>2
  <2> QED
    BY <2>1, <2>2
<1> QED
  BY <1>1, <1>4 DEF IInv

\* A step that answers one request and lets the tables grow.
LEMMA TableStep ==
  ASSUME IInv, TablesGrow, TypeOK', CatalogInv',
         \A p \in Request : request'[p] \in {request[p], Idle},
         \A o \in Org : Created(o)' => Created(o)
  PROVE  IInv'
<1>1. \A p \in Request : RequestInv(request[p])'
  <2> SUFFICES ASSUME NEW p \in Request PROVE RequestInv(request[p])'
    OBVIOUS
  <2>1. PICK s \in RequestState : s = request'[p] /\ RequestInv(s)
    BY IdleState DEF IInv, TypeOK
  <2>2. RequestInv(s)'
    BY <2>1, RequestFrame
  <2> QED
    BY <2>1, <2>2
<1>2. SingleOwner'
  BY OwnersFrame DEF IInv, SingleOwner
<1> QED
  BY <1>1, <1>2 DEF IInv
-----------------------------------------------------------------------------
\* Sending a request, answering it and dying change no table.
LEMMA ArrivalStep ==
  ASSUME IInv, NEW r \in Request, Arrival(r)
  PROVE  IInv' /\ TablesGrow
<1>1. ASSUME NEW o \in Org, NEW c \in User, NEW t \in User, ReceiveRemove(r, o, c, t)
      PROVE  IInv' /\ TablesGrow
  <2> DEFINE q == [Idle EXCEPT !.op = "remove", !.step = "caller", !.caller = <<o, c>>,
                               !.target = <<o, t>>]
  <2>1. q \in RequestState /\ RequestInv(q)
    BY DEF RequestInv, RequestState, Idle, Op, Step, Seat
  <2>2. request' = [request EXCEPT ![r] = q] /\ UNCHANGED <<member, role>>
    BY <1>1 DEF ReceiveRemove, Receive
  <2> QED
    BY <2>1, <2>2, RequestStep
<1>2. ASSUME NEW o \in Org, NEW c \in User, NEW t \in User, NEW i \in RoleId,
             ReceiveChange(r, o, c, t, i)
      PROVE  IInv' /\ TablesGrow
  <2> DEFINE q == [Idle EXCEPT !.op = "change", !.step = "caller", !.caller = <<o, c>>,
                               !.target = <<o, t>>, !.role = i]
  <2>1. q \in RequestState /\ RequestInv(q)
    BY DEF RequestInv, RequestState, Idle, Op, Step, Seat
  <2>2. request' = [request EXCEPT ![r] = q] /\ UNCHANGED <<member, role>>
    BY <1>2 DEF ReceiveChange, Receive
  <2> QED
    BY <2>1, <2>2, RequestStep
<1>3. ASSUME NEW i \in RoleId, NEW op \in {"deleteRole", "updateRole", "permissions"},
             Receive(r, [Idle EXCEPT !.op = op, !.step = "role", !.role = i])
      PROVE  IInv' /\ TablesGrow
  <2> DEFINE q == [Idle EXCEPT !.op = op, !.step = "role", !.role = i]
  <2>1. q \in RequestState /\ RequestInv(q)
    BY DEF RequestInv, RequestState, Idle, Op, Step
  <2>2. request' = [request EXCEPT ![r] = q] /\ UNCHANGED <<member, role>>
    BY <1>3 DEF Receive
  <2> QED
    BY <2>1, <2>2, RequestStep
<1>4. ASSUME NEW k \in Key, ReceiveCreateRole(r, k)
      PROVE  IInv' /\ TablesGrow
  <2> DEFINE q == [Idle EXCEPT !.op = "createRole", !.step = "key", !.key = k]
  <2>1. q \in RequestState /\ RequestInv(q)
    BY DEF RequestInv, RequestState, Idle, Op, Step
  <2>2. request' = [request EXCEPT ![r] = q] /\ UNCHANGED <<member, role>>
    BY <1>4 DEF ReceiveCreateRole, Receive
  <2> QED
    BY <2>1, <2>2, RequestStep
<1> QED
  BY <1>1, <1>2, <1>3, <1>4 DEF Arrival, ReceiveDeleteRole, ReceiveUpdateRole, ReceivePermissions

LEMMA AnswerStep ==
  ASSUME IInv, NEW r \in Request, Answers(r), UNCHANGED <<member, role>>
  PROVE  IInv' /\ TablesGrow
BY IdleState, RequestStep DEF Answers

\* A request that reads and goes on with what it read.
LEMMA MemberReads ==
  ASSUME IInv, NEW r \in Request,
         ReadCaller(r) \/ CheckPermission(r) \/ ReadNewRole(r) \/ ReadTarget(r) \/ ReadCurrentRole(r)
  PROVE  IInv' /\ TablesGrow
<1>1. PICK q \in RequestState : q = request[r]
  BY DEF IInv, TypeOK
<1>2. RequestInv(q) /\ TypeOK
  BY <1>1 DEF IInv
<1>3. CASE ReadCaller(r) /\ ~Answers(r)
  <2> DEFINE n == [q EXCEPT !.step = "permission", !.read = member[q.caller].role]
  <2>1. q.step = "caller" /\ q.caller \in ActiveMember
        /\ request' = [request EXCEPT ![r].step = "permission", ![r].read = member[q.caller].role]
        /\ UNCHANGED <<member, role>>
    BY <1>1, <1>3 DEF ReadCaller, Remembers
  <2>2. member[q.caller] \in MemberRow
    BY <1>2, <2>1 DEF TypeOK, ActiveMember
  <2>3. n \in RequestState /\ RequestInv(n)
    BY <1>2, <2>1, <2>2 DEF RequestInv, RequestState, Op, Step, MemberRow
  <2>4. request' = [request EXCEPT ![r] = n]
    BY <1>1, <1>2, <2>1 DEF TypeOK
  <2> QED
    BY <2>1, <2>3, <2>4, RequestStep
<1>4. CASE CheckPermission(r) /\ ~Answers(r)
  <2> DEFINE n == [q EXCEPT !.caller = None, !.read = None,
                            !.step = IF q.op = "change" THEN "newRole" ELSE "target"]
  <2>1. q.step = "permission" /\ UNCHANGED <<member, role>>
        /\ request' = [request EXCEPT ![r].caller = None, ![r].read = None,
                         ![r].step = IF q.op = "change" THEN "newRole" ELSE "target"]
    BY <1>1, <1>4 DEF CheckPermission
  <2>2. n \in RequestState /\ RequestInv(n)
    BY <1>2, <2>1 DEF RequestInv, RequestState, Op, Step
  <2>3. request' = [request EXCEPT ![r] = n]
    BY <1>1, <1>2, <2>1 DEF TypeOK
  <2> QED
    BY <2>1, <2>2, <2>3, RequestStep
<1>5. CASE ReadNewRole(r) /\ ~Answers(r)
  <2> DEFINE n == [q EXCEPT !.step = "target"]
  <2>1. q.step = "newRole" /\ ~IsOwnerRole(q.role) /\ UNCHANGED <<member, role>>
        /\ request' = [request EXCEPT ![r].step = "target"]
    BY <1>1, <1>5 DEF ReadNewRole, Goes
  <2>2. n \in RequestState /\ RequestInv(n)
    BY <1>2, <2>1 DEF RequestInv, RequestState, Op, Step, OwnerRoles
  <2>3. request' = [request EXCEPT ![r] = n]
    BY <1>1, <1>2, <2>1 DEF TypeOK
  <2> QED
    BY <2>1, <2>2, <2>3, RequestStep
<1>6. CASE ReadTarget(r) /\ ~Answers(r)
  <2> DEFINE n == [q EXCEPT !.step = "currentRole", !.read = member[q.target].role]
  <2>1. q.step = "target" /\ q.target \in ActiveMember /\ UNCHANGED <<member, role>>
        /\ request' = [request EXCEPT ![r].step = "currentRole", ![r].read = member[q.target].role]
    BY <1>1, <1>6 DEF ReadTarget, Remembers
  <2>2. member[q.target] \in MemberRow /\ member[q.target] # None
    BY <1>2, <2>1 DEF TypeOK, ActiveMember
  <2>3. n \in RequestState /\ RequestInv(n)
    BY <1>2, <2>1, <2>2 DEF RequestInv, RequestState, Op, Step, MemberRow
  <2>4. request' = [request EXCEPT ![r] = n]
    BY <1>1, <1>2, <2>1 DEF TypeOK
  <2> QED
    BY <2>1, <2>3, <2>4, RequestStep
<1>7. CASE ReadCurrentRole(r)
  <2> DEFINE n == [q EXCEPT !.step = IF IsOwnerRole(q.read) THEN "owners" ELSE "write"]
  <2>1. q.step = "currentRole" /\ UNCHANGED <<member, role>>
        /\ request' = [request EXCEPT ![r].step = IF IsOwnerRole(q.read) THEN "owners" ELSE "write"]
    BY <1>1, <1>7 DEF ReadCurrentRole, Goes
  <2>2. q.read \in OwnerRoles <=> IsOwnerRole(q.read)
    BY DEF OwnerRoles, IsOwnerRole, ActiveRole
  <2>3. n \in RequestState /\ RequestInv(n)
    BY <1>2, <2>1, <2>2 DEF RequestInv, RequestState, Op, Step
  <2>4. request' = [request EXCEPT ![r] = n]
    BY <1>1, <1>2, <2>1 DEF TypeOK
  <2> QED
    BY <2>1, <2>3, <2>4, RequestStep
<1> QED
  BY <1>3, <1>4, <1>5, <1>6, <1>7, AnswerStep
     DEF ReadCaller, CheckPermission, ReadNewRole, ReadTarget

\* The count of a sole owner is one, so a request never gets past it.
LEMMA CountOwnersStep ==
  ASSUME IInv, NEW r \in Request, CountOwners(r)
  PROVE  IInv' /\ TablesGrow
<1>1. PICK q \in RequestState : q = request[r]
  BY DEF IInv, TypeOK
<1>2. /\ q.step = "owners" /\ q.read \in OwnerRoles /\ q.target \in Seat
      /\ UNCHANGED <<member, role>>
  BY <1>1 DEF CountOwners, IInv, RequestInv
<1>3. PICK o \in Org : o = q.target[1]
  BY <1>2 DEF Seat
<1>4. Holding(o, q.read) = Owners(o)
  BY <1>2, OneOwnerRole, OwnersAre DEF Holding, IInv
<1>5. CASE Created(o)
  <2>1. PICK u : Owners(o) = {u}
    BY <1>5 DEF IInv, SingleOwner
  <2>2. Cardinality(Holding(o, q.read)) <= 1
    BY <1>4, <2>1, FS_Singleton
  <2> QED
    BY <1>1, <1>2, <1>3, <2>2, AnswerStep DEF CountOwners
<1>6. CASE ~Created(o)
  <2>1. Holding(o, q.read) = {}
    BY <1>6 DEF Created, Holding, ActiveMember
  <2>2. Cardinality(Holding(o, q.read)) <= 1
    BY <2>1, FS_EmptySet
  <2> QED
    BY <1>1, <1>2, <1>3, <2>2, AnswerStep DEF CountOwners
<1> QED
  BY <1>5, <1>6

LEMMA SelectMemberStep ==
  ASSUME IInv, NEW r \in Request, SelectMember(r)
  PROVE  IInv' /\ TablesGrow
<1>1. PICK q \in RequestState : q = request[r]
  BY DEF IInv, TypeOK
<1>2. RequestInv(q) /\ TypeOK /\ q.op = "change" /\ q.step = "write" /\ UNCHANGED <<member, role>>
  BY <1>1 DEF IInv, SelectMember
<1>3. Answers(r) \/ \E set \in SUBSET {"role", "deleted"} :
        request' = [request EXCEPT ![r].step = "update", ![r].set = set]
  BY <1>1 DEF SelectMember
<1>4. ASSUME NEW set \in SUBSET {"role", "deleted"},
             request' = [request EXCEPT ![r].step = "update", ![r].set = set]
      PROVE  IInv' /\ TablesGrow
  <2> DEFINE n == [q EXCEPT !.step = "update", !.set = set]
  <2>1. n \in RequestState /\ RequestInv(n)
    BY <1>2 DEF RequestInv, RequestState, Op, Step
  <2>2. request' = [request EXCEPT ![r] = n]
    BY <1>1, <1>2, <1>4 DEF TypeOK
  <2> QED
    BY <1>2, <2>1, <2>2, RequestStep
<1> QED
  BY <1>2, <1>3, <1>4, AnswerStep
-----------------------------------------------------------------------------
\* Writing a row that does not hold the owner role, without giving it to it.
LEMMA MemberWrite ==
  ASSUME IInv, NEW r \in Request, Answers(r), UNCHANGED role,
         NEW p \in Seat, NEW row \in MemberRow,
         member[p] # None, member[p].role \notin OwnerRoles, row.role \notin OwnerRoles,
         member' = [member EXCEPT ![p] = row]
  PROVE  IInv' /\ TablesGrow
<1>1. TypeOK' /\ \A q \in Request : request'[q] \in {request[q], Idle}
  BY IdleState DEF IInv, TypeOK, Answers
<1>2. /\ member'[p] = row /\ row # None
      /\ \A q \in Seat \ {p} : member'[q] = member[q]
  BY NoneAssumption DEF IInv, TypeOK
<1>3. OwnerRoles' = OwnerRoles /\ CatalogInv'
  BY DEF IInv, CatalogInv, OwnerRoles, IsOwnerRole, ActiveRole, KeysAreUnique
<1>4. \A o \in Org, u \in User : <<o, u>> \in Seat
  BY DEF Seat
<1>5. TablesGrow
  BY <1>2, <1>3, <1>4 DEF TablesGrow
<1>6. \A o \in Org : Created(o)' => Created(o)
  BY <1>2, <1>4 DEF Created
<1> QED
  BY <1>1, <1>3, <1>5, <1>6, TableStep

LEMMA UpdateMemberStep ==
  ASSUME IInv, NEW r \in Request, UpdateMember(r)
  PROVE  IInv' /\ TablesGrow
<1>1. PICK q \in RequestState : q = request[r]
  BY DEF IInv, TypeOK
<1>2. /\ RequestInv(q) /\ TypeOK /\ q.op = "change" /\ q.step = "update"
      /\ UNCHANGED role /\ Answers(r)
  BY <1>1 DEF IInv, UpdateMember
<1>3. /\ q.target \in Seat /\ member[q.target] # None /\ member[q.target].role \notin OwnerRoles
      /\ q.role \in RoleId \ OwnerRoles
  BY <1>2 DEF RequestInv
<1>4. member[q.target] \in MemberRow
  BY <1>2, <1>3 DEF TypeOK
<1> DEFINE row == [role |-> IF "role" \in q.set THEN q.role ELSE member[q.target].role,
                   deleted |-> member[q.target].deleted /\ "deleted" \notin q.set]
<1>5. row \in MemberRow /\ row.role \notin OwnerRoles
  BY <1>3, <1>4 DEF MemberRow
<1>6. member' = [member EXCEPT ![q.target] = row]
  BY <1>1 DEF UpdateMember
<1> HIDE DEF row
<1> QED
  BY <1>2, <1>3, <1>5, <1>6, MemberWrite

LEMMA SoftDeleteMemberStep ==
  ASSUME IInv, NEW r \in Request, SoftDeleteMember(r)
  PROVE  IInv' /\ TablesGrow
<1>1. PICK q \in RequestState : q = request[r]
  BY DEF IInv, TypeOK
<1>2. /\ RequestInv(q) /\ TypeOK /\ q.op = "remove" /\ q.step = "write"
      /\ UNCHANGED role /\ Answers(r)
  BY <1>1 DEF IInv, SoftDeleteMember
<1>3. q.target \in Seat /\ member[q.target] # None /\ member[q.target].role \notin OwnerRoles
  BY <1>2 DEF RequestInv
<1>4. member[q.target] \in MemberRow
  BY <1>2, <1>3 DEF TypeOK
<1> DEFINE row == [member[q.target] EXCEPT !.deleted = TRUE]
<1>5. row \in MemberRow /\ row.role \notin OwnerRoles
  BY <1>3, <1>4 DEF MemberRow
<1>6. member' = [member EXCEPT ![q.target] = row]
  BY <1>1 DEF SoftDeleteMember
<1> HIDE DEF row
<1> QED
  BY <1>2, <1>3, <1>5, <1>6, MemberWrite

\* A new organization gets its one owner.
LEMMA CreateOrganizationStep ==
  ASSUME IInv, NEW o \in Org, NEW u \in User, CreateOrganization(o, u)
  PROVE  IInv' /\ TablesGrow
<1>1. PICK i \in OwnerRoles : member' = [member EXCEPT ![<<o, u>>] = NewMember(i)]
  BY DEF CreateOrganization, OwnerRoles
<1>2. UNCHANGED <<role, request>> /\ \A v \in User : member[<<o, v>>] = None
  BY DEF CreateOrganization
<1>3. OwnerRoles' = OwnerRoles /\ CatalogInv'
  BY <1>2 DEF IInv, CatalogInv, OwnerRoles, IsOwnerRole, ActiveRole, KeysAreUnique
<1>4. \A e \in Org, v \in User : <<e, v>> \in Seat
  BY DEF Seat
<1>5. /\ NewMember(i) \in MemberRow /\ NewMember(i) # None
      /\ NewMember(i).role = i /\ ~NewMember(i).deleted
  <2>1. NewMember(i) \in MemberRow
    BY DEF NewMember, MemberRow, OwnerRoles
  <2>2. NewMember(i) # None
    BY <2>1, NoneAssumption
  <2> QED
    BY <2>1, <2>2 DEF NewMember
<1>6. /\ member'[<<o, u>>] = NewMember(i)
      /\ \A p \in Seat : p # <<o, u>> => member'[p] = member[p]
      /\ TypeOK'
  BY <1>1, <1>2, <1>4, <1>5 DEF IInv, TypeOK
<1>7. TablesGrow
  BY <1>2, <1>3, <1>4, <1>5, <1>6 DEF TablesGrow, Created
<1>8. Owners(o)' = {u}
  <2>1. \A v \in User : v # u => member'[<<o, v>>] = None
    BY <1>2, <1>4, <1>6
  <2>2. <<o, u>> \in ActiveMember' /\ IsOwnerRole(member[<<o, u>>].role)'
    BY <1>2, <1>4, <1>5, <1>6 DEF ActiveMember, OwnerRoles, IsOwnerRole, ActiveRole
  <2> QED
    BY <2>1, <2>2 DEF Owners, ActiveMember
<1>9. \A e \in Org : e # o => (Created(e)' => Created(e))
  BY <1>4, <1>6 DEF Created
<1>10. SingleOwner'
  <2> SUFFICES ASSUME NEW e \in Org, Created(e)' PROVE \E v \in User : Owners(e)' = {v}
    BY DEF SingleOwner
  <2>1. CASE e = o
    BY <1>8, <2>1
  <2>2. CASE e # o
    <3>1. PICK v \in User : Owners(e) = {v}
      BY <1>9, <2>2 DEF IInv, SingleOwner
    <3>2. Owners(e)' = Owners(e)
      BY <1>7, <1>9, <2>2, OwnersFrame DEF IInv
    <3> QED
      BY <3>1, <3>2
  <2> QED
    BY <2>1, <2>2
<1>11. \A r \in Request : RequestInv(request[r])'
  <2> SUFFICES ASSUME NEW r \in Request PROVE RequestInv(request[r])'
    OBVIOUS
  <2>1. PICK q \in RequestState : q = request[r] /\ RequestInv(q)
    BY DEF IInv, TypeOK
  <2>2. RequestInv(q)'
    BY <1>7, <2>1, RequestFrame
  <2> QED
    BY <1>2, <2>1, <2>2
<1> QED
  BY <1>3, <1>6, <1>7, <1>10, <1>11 DEF IInv
-----------------------------------------------------------------------------
\* A request on the catalog that reads and goes on.
LEMMA RoleReads ==
  ASSUME IInv, NEW r \in Request,
         FindRole(r) \/ CountMembers(r) \/ SelectRole(r) \/ FindKey(r)
  PROVE  IInv' /\ TablesGrow
<1>1. PICK q \in RequestState : q = request[r]
  BY DEF IInv, TypeOK
<1>2. RequestInv(q) /\ TypeOK /\ UNCHANGED <<member, role>>
  BY <1>1 DEF IInv, FindRole, CountMembers, SelectRole, FindKey
<1>3. CASE FindRole(r) /\ ~Answers(r)
  <2> DEFINE n == [q EXCEPT !.step = IF q.op = "deleteRole" THEN "members" ELSE "write"]
  <2>1. /\ q.step = "role" /\ q.role \in ActiveRole
        /\ ~(q.op = "deleteRole" /\ IsOwnerRole(q.role))
        /\ request' = [request EXCEPT ![r].step = IF q.op = "deleteRole" THEN "members" ELSE "write"]
    BY <1>1, <1>3 DEF FindRole, Goes
  <2>2. role[q.role] # None /\ (q.op = "deleteRole" => q.role \notin OwnerRoles)
    BY <2>1 DEF ActiveRole, OwnerRoles
  <2>3. n \in RequestState /\ RequestInv(n)
    BY <1>2, <2>1, <2>2 DEF RequestInv, RequestState, Op, Step
  <2>4. request' = [request EXCEPT ![r] = n]
    BY <1>1, <1>2, <2>1 DEF TypeOK
  <2> QED
    BY <1>2, <2>3, <2>4, RequestStep
<1>4. CASE (CountMembers(r) \/ FindKey(r)) /\ ~Answers(r)
  <2> DEFINE n == [q EXCEPT !.step = "write"]
  <2>1. q.step \in {"members", "key"} /\ request' = [request EXCEPT ![r].step = "write"]
    BY <1>1, <1>4 DEF CountMembers, FindKey, Goes
  <2>2. n \in RequestState /\ RequestInv(n)
    BY <1>2, <2>1 DEF RequestInv, RequestState, Op, Step
  <2>3. request' = [request EXCEPT ![r] = n]
    BY <1>1, <1>2, <2>1 DEF TypeOK
  <2> QED
    BY <1>2, <2>2, <2>3, RequestStep
<1>5. CASE SelectRole(r) /\ ~Answers(r)
  <2> DEFINE n == [q EXCEPT !.step = "update"]
  <2>1. /\ q.op = "updateRole" /\ q.step = "write"
        /\ request' = [request EXCEPT ![r].step = "update"]
    BY <1>1, <1>5 DEF SelectRole, Goes
  <2>2. n \in RequestState /\ RequestInv(n)
    BY <1>2, <2>1 DEF RequestInv, RequestState, Op, Step
  <2>3. request' = [request EXCEPT ![r] = n]
    BY <1>1, <1>2, <2>1 DEF TypeOK
  <2> QED
    BY <1>2, <2>2, <2>3, RequestStep
<1> QED
  BY <1>2, <1>3, <1>4, <1>5, AnswerStep

\* Writing a role row that is not an owner role before or after, and whose key
\* no other active role has when the row ends up active.
LEMMA RoleWrite ==
  ASSUME IInv, NEW r \in Request, Answers(r), UNCHANGED member,
         NEW i \in RoleId, NEW row \in RoleRow, row.key # OwnerKey,
         i \notin OwnerRoles,
         row.deleted \/ \A j \in ActiveRole : j # i => role[j].key # row.key,
         role' = [role EXCEPT ![i] = row]
  PROVE  IInv' /\ TablesGrow
<1>1. TypeOK' /\ \A q \in Request : request'[q] \in {request[q], Idle}
  BY IdleState DEF IInv, TypeOK, Answers
<1>2. role'[i] = row /\ \A j \in RoleId : j # i => role'[j] = role[j]
  BY DEF IInv, TypeOK
<1>3. row # None
  BY NoneAssumption
<1>4. ActiveRole' \subseteq ActiveRole \cup {i} /\ (row.deleted => i \notin ActiveRole')
  BY <1>2 DEF ActiveRole
<1>5. ActiveRole \ {i} = ActiveRole' \ {i}
  BY <1>2 DEF ActiveRole
<1>6. \A j \in RoleId : IsOwnerRole(j)' <=> j \in OwnerRoles
  <2> SUFFICES ASSUME NEW j \in RoleId PROVE IsOwnerRole(j)' <=> j \in OwnerRoles
    OBVIOUS
  <2>1. CASE j = i
    BY <1>2, <2>1 DEF IsOwnerRole
  <2>2. CASE j # i
    BY <1>2, <1>5, <2>2 DEF IsOwnerRole, OwnerRoles
  <2> QED
    BY <2>1, <2>2
<1>7. OwnerRoles' = OwnerRoles
  BY <1>6 DEF OwnerRoles
<1>8. KeysAreUnique'
  BY <1>2, <1>4, <1>5 DEF KeysAreUnique, IInv, CatalogInv
<1>9. CatalogInv'
  BY <1>2, <1>7, <1>8 DEF IInv, CatalogInv
<1>10. TablesGrow
  BY <1>2, <1>3, <1>7 DEF TablesGrow, Created
<1>11. \A o \in Org : Created(o)' => Created(o)
  BY DEF Created
<1> QED
  BY <1>1, <1>9, <1>10, <1>11, TableStep

LEMMA SoftDeleteRoleStep ==
  ASSUME IInv, NEW r \in Request, SoftDeleteRole(r)
  PROVE  IInv' /\ TablesGrow
<1>1. PICK q \in RequestState : q = request[r]
  BY DEF IInv, TypeOK
<1>2. /\ RequestInv(q) /\ TypeOK /\ q.op = "deleteRole" /\ q.step = "write"
      /\ UNCHANGED member /\ Answers(r)
  BY <1>1 DEF IInv, SoftDeleteRole
<1>3. /\ q.role \in RoleId \ OwnerRoles /\ role[q.role] # None
      /\ role[q.role] \in RoleRow
  BY <1>2 DEF RequestInv, TypeOK
<1>4. role[q.role].key # OwnerKey
  BY <1>3 DEF IInv, CatalogInv, OwnerRoles, IsOwnerRole, ActiveRole
<1> DEFINE row == [role[q.role] EXCEPT !.deleted = TRUE]
<1>5. row \in RoleRow /\ row.key # OwnerKey /\ row.deleted
  BY <1>3, <1>4 DEF RoleRow
<1>6. role' = [role EXCEPT ![q.role] = row]
  BY <1>1 DEF SoftDeleteRole
<1> HIDE DEF row
<1> QED
  BY <1>2, <1>3, <1>5, <1>6, RoleWrite

\* A stale save restores a deleted role, which is never the owner role.
LEMMA UpdateRoleStep ==
  ASSUME IInv, NEW r \in Request, UpdateRole(r)
  PROVE  IInv' /\ TablesGrow
<1>1. PICK q \in RequestState : q = request[r]
  BY DEF IInv, TypeOK
<1>2. /\ RequestInv(q) /\ TypeOK /\ q.op = "updateRole" /\ q.step = "update"
      /\ UNCHANGED member /\ Answers(r)
  BY <1>1 DEF IInv, UpdateRole
<1>3. q.role \in RoleId /\ role[q.role] # None /\ role[q.role] \in RoleRow
  BY <1>2 DEF RequestInv, TypeOK
<1>4. CASE UNCHANGED role
  BY <1>2, <1>4, AnswerStep
<1>5. CASE ~KeyTaken(role[q.role].key) /\ role' = [role EXCEPT ![q.role].deleted = FALSE]
  <2> DEFINE row == [role[q.role] EXCEPT !.deleted = FALSE]
  <2>1. \A j \in ActiveRole : role[j].key # role[q.role].key
    BY <1>5 DEF KeyTaken
  <2>2. q.role \notin OwnerRoles
    BY <2>1 DEF OwnerRoles, IsOwnerRole
  <2>3. role[q.role].key # OwnerKey
    BY <2>1 DEF IInv, CatalogInv, OwnerRoles, IsOwnerRole
  <2>4. row \in RoleRow /\ row.key = role[q.role].key
    BY <1>3 DEF RoleRow
  <2>5. role' = [role EXCEPT ![q.role] = row]
    BY <1>5
  <2> HIDE DEF row
  <2> QED
    BY <1>2, <1>3, <2>1, <2>2, <2>3, <2>4, <2>5, RoleWrite
<1> QED
  BY <1>1, <1>4, <1>5 DEF UpdateRole

LEMMA InsertRoleStep ==
  ASSUME IInv, NEW r \in Request, NEW i \in RoleId, InsertRole(r, i)
  PROVE  IInv' /\ TablesGrow
<1>1. PICK q \in RequestState : q = request[r]
  BY DEF IInv, TypeOK
<1>2. /\ RequestInv(q) /\ q.op = "createRole" /\ role[i] = None
      /\ UNCHANGED member /\ Answers(r)
  BY <1>1 DEF IInv, InsertRole
<1>3. CASE UNCHANGED role
  BY <1>2, <1>3, AnswerStep
<1>4. CASE ~KeyTaken(q.key) /\ role' = [role EXCEPT ![i] = NewRole(q.key, FALSE)]
  <2>1. \A j \in ActiveRole : role[j].key # q.key
    BY <1>4 DEF KeyTaken
  <2>2. q.key # OwnerKey
    BY <2>1 DEF IInv, CatalogInv, OwnerRoles, IsOwnerRole
  <2>3. i \notin OwnerRoles
    BY <1>2 DEF OwnerRoles, IsOwnerRole, ActiveRole
  <2> DEFINE row == NewRole(q.key, FALSE)
  <2>4. row \in RoleRow /\ row.key = q.key
    BY <1>2 DEF RequestInv, NewRole, RoleRow
  <2>5. role' = [role EXCEPT ![i] = row]
    BY <1>4
  <2> HIDE DEF row
  <2> QED
    BY <1>2, <2>1, <2>2, <2>3, <2>4, <2>5, RoleWrite
<1> QED
  BY <1>1, <1>3, <1>4 DEF InsertRole

\* The permissions of any role, the owner role included, can be replaced.
LEMMA WritePermissionsStep ==
  ASSUME IInv, NEW r \in Request, NEW m \in BOOLEAN, WritePermissions(r, m)
  PROVE  IInv' /\ TablesGrow
<1>1. PICK q \in RequestState : q = request[r]
  BY DEF IInv, TypeOK
<1>2. /\ RequestInv(q) /\ TypeOK /\ q.op = "permissions" /\ q.step = "write"
      /\ UNCHANGED member /\ Answers(r)
  BY <1>1 DEF IInv, WritePermissions
<1>3. q.role \in RoleId /\ role[q.role] # None /\ role[q.role] \in RoleRow
  BY <1>2 DEF RequestInv, TypeOK
<1> DEFINE row == [role[q.role] EXCEPT !.manages = m]
<1>4. /\ row \in RoleRow /\ row # None
      /\ row.key = role[q.role].key
      /\ row.deleted = role[q.role].deleted
  <2>1. row \in RoleRow
    BY <1>3 DEF RoleRow
  <2> QED
    BY <1>3, <2>1, NoneAssumption DEF RoleRow
<1>5. role' = [role EXCEPT ![q.role] = row]
  BY <1>1 DEF WritePermissions
<1> HIDE DEF row
<1>6. TypeOK' /\ \A p \in Request : request'[p] \in {request[p], Idle}
  BY <1>2, <1>4, <1>5, IdleState DEF TypeOK, Answers
<1>7. role'[q.role] = row /\ \A j \in RoleId : j # q.role => role'[j] = role[j]
  BY <1>2, <1>3, <1>5 DEF TypeOK
<1>8. /\ \A j \in RoleId : role[j] # None <=> role'[j] # None
      /\ \A j \in RoleId : role[j] # None => role'[j].key = role[j].key
      /\ \A j \in RoleId : role[j] # None => role'[j].deleted = role[j].deleted
  BY <1>3, <1>4, <1>7
<1>9. ActiveRole' = ActiveRole
  BY <1>8 DEF ActiveRole
<1>10. OwnerRoles' = OwnerRoles
  BY <1>8, <1>9 DEF OwnerRoles, IsOwnerRole, ActiveRole
<1>11. CatalogInv'
  <2>1. KeysAreUnique'
    BY <1>8, <1>9 DEF IInv, CatalogInv, KeysAreUnique, ActiveRole
  <2>2. \A j \in RoleId : role'[j] # None /\ role'[j].key = OwnerKey => ~role'[j].deleted
    BY <1>8 DEF IInv, CatalogInv
  <2> QED
    BY <1>10, <2>1, <2>2 DEF IInv, CatalogInv
<1>12. TablesGrow
  BY <1>2, <1>8, <1>10 DEF TablesGrow, Created
<1>13. \A o \in Org : Created(o)' => Created(o)
  BY <1>2 DEF Created
<1> QED
  BY <1>6, <1>11, <1>12, <1>13, TableStep

\* A boot adds the missing roles of the initial catalog; the owner role is
\* never missing.
LEMMA BootStep ==
  ASSUME IInv, Boot
  PROVE  IInv' /\ TablesGrow
<1> DEFINE missing == {k \in SeedKey : ~KeyTaken(k)}
<1>1. PICK id \in [missing -> {i \in RoleId : role[i] = None}] :
        /\ \A j, k \in missing : id[j] = id[k] => j = k
        /\ role' = [i \in RoleId |->
             IF \E k \in missing : id[k] = i
             THEN NewRole(CHOOSE k \in missing : id[k] = i,
                          (CHOOSE k \in missing : id[k] = i) \in ManagerKey)
             ELSE role[i]]
  BY DEF Boot
<1>2. UNCHANGED <<member, request>>
  BY DEF Boot
<1>3. \A k \in missing : k \in Key /\ k # OwnerKey /\ (\A j \in ActiveRole : role[j].key # k)
  BY SeedAssumption DEF KeyTaken, IInv, CatalogInv, OwnerRoles, IsOwnerRole
<1> HIDE DEF missing
<1>4. \A k \in missing : id[k] \in RoleId /\ role[id[k]] = None
                         /\ role'[id[k]] = NewRole(k, k \in ManagerKey)
  <2> SUFFICES ASSUME NEW k \in missing
               PROVE  id[k] \in RoleId /\ role[id[k]] = None
                      /\ role'[id[k]] = NewRole(k, k \in ManagerKey)
    OBVIOUS
  <2>1. (CHOOSE j \in missing : id[j] = id[k]) = k
    BY <1>1
  <2> QED
    BY <1>1, <2>1
<1>5. \A i \in RoleId : (\A k \in missing : id[k] # i) => role'[i] = role[i]
  BY <1>1
<1>6. \A i \in RoleId : role[i] # None => role'[i] = role[i]
  BY <1>4, <1>5
<1>7. \A k \in missing : NewRole(k, k \in ManagerKey) \in RoleRow
  BY <1>3 DEF NewRole, RoleRow
<1>8. TypeOK'
  BY <1>1, <1>2, <1>4, <1>5, <1>7 DEF IInv, TypeOK
<1>9. \A i \in RoleId : role[i] = None /\ role'[i] # None =>
        \E k \in missing : id[k] = i /\ role'[i].key = k
  <2>1. \A k \in missing : NewRole(k, k \in ManagerKey).key = k
    BY Zenon DEF NewRole
  <2>2. \A k \in missing : role'[id[k]].key = k
    BY <1>4, <2>1
  <2> QED
    BY <1>5, <2>2
<1>10. /\ ActiveRole \subseteq ActiveRole'
       /\ \A i \in ActiveRole' : role[i] # None => i \in ActiveRole
       /\ \A i \in ActiveRole : role'[i] = role[i]
       /\ \A i \in ActiveRole' : role'[i] # None
  BY <1>6 DEF ActiveRole
<1>11. OwnerRoles' = OwnerRoles
  <2>1. \A i \in RoleId : i \in ActiveRole' /\ role'[i].key = OwnerKey
                          <=> i \in ActiveRole /\ role[i].key = OwnerKey
    BY <1>3, <1>9, <1>10
  <2> QED
    BY <2>1 DEF OwnerRoles, IsOwnerRole
<1>12. CatalogInv'
  <2>1. \A i \in ActiveRole' : \/ i \in ActiveRole /\ role'[i].key = role[i].key
                               \/ \E k \in missing : id[k] = i /\ role'[i].key = k
    BY <1>9, <1>10 DEF ActiveRole
  <2>2. KeysAreUnique'
    BY <1>3, <2>1 DEF KeysAreUnique, IInv, CatalogInv
  <2>3. \A i \in RoleId : role'[i] # None /\ role'[i].key = OwnerKey => ~role'[i].deleted
    BY <1>3, <1>6, <1>9 DEF IInv, CatalogInv
  <2> QED
    BY <1>11, <2>2, <2>3 DEF IInv, CatalogInv
<1>13. TablesGrow
  BY <1>2, <1>6, <1>11 DEF TablesGrow, Created
<1>14. \A o \in Org : Created(o)' => Created(o)
  BY <1>2 DEF Created
<1> QED
  BY <1>2, <1>8, <1>12, <1>13, <1>14, TableStep
-----------------------------------------------------------------------------
LEMMA NextStep ==
  ASSUME IInv, Next
  PROVE  IInv' /\ TablesGrow
<1>1. ASSUME NEW r \in Request, Fail(r)
      PROVE  IInv' /\ TablesGrow
  BY <1>1, AnswerStep DEF Fail
<1>2. ASSUME NEW r \in Request, ManageMember(r)
      PROVE  IInv' /\ TablesGrow
  BY <1>2, MemberReads, CountOwnersStep, SelectMemberStep, UpdateMemberStep, SoftDeleteMemberStep
     DEF ManageMember
<1>3. ASSUME NEW r \in Request, ManageRole(r)
      PROVE  IInv' /\ TablesGrow
  BY <1>3, RoleReads, SoftDeleteRoleStep, WritePermissionsStep, UpdateRoleStep, InsertRoleStep
     DEF ManageRole
<1> QED
  BY <1>1, <1>2, <1>3, ArrivalStep, CreateOrganizationStep, BootStep DEF Next

\* The first boot and the earlier releases leave one owner to each organization
\* and to each member a role of the catalog.
LEMMA InitStep ==
  ASSUME Init
  PROVE  IInv /\ AssignedRoleExists
<1>1. PICK id \in [SeedKey -> RoleId] :
        /\ \A j, k \in SeedKey : id[j] = id[k] => j = k
        /\ role = [i \in RoleId |->
             IF \E k \in SeedKey : id[k] = i
             THEN NewRole(CHOOSE k \in SeedKey : id[k] = i,
                          (CHOOSE k \in SeedKey : id[k] = i) \in ManagerKey)
             ELSE None]
        /\ \E owner \in [Org -> User \cup {None}],
              other \in [Seat -> {id[k] : k \in SeedKey \ {OwnerKey}} \cup {None}] :
             member = [p \in Seat |->
               IF owner[p[1]] = p[2] THEN NewMember(id[OwnerKey])
               ELSE IF owner[p[1]] # None /\ other[p] # None THEN NewMember(other[p]) ELSE None]
  BY DEF Init
<1>2. PICK owner \in [Org -> User \cup {None}],
           other \in [Seat -> {id[k] : k \in SeedKey \ {OwnerKey}} \cup {None}] :
        member = [p \in Seat |->
          IF owner[p[1]] = p[2] THEN NewMember(id[OwnerKey])
          ELSE IF owner[p[1]] # None /\ other[p] # None THEN NewMember(other[p]) ELSE None]
  BY <1>1
<1>3. request = [r \in Request |-> Idle]
  BY DEF Init
<1> DEFINE w == id[OwnerKey]
<1>4. w \in RoleId /\ \A k \in SeedKey \ {OwnerKey} : id[k] \in RoleId /\ id[k] # w
  BY <1>1, SeedAssumption
<1>5. \A k \in SeedKey : role[id[k]] = NewRole(k, k \in ManagerKey)
  <2> SUFFICES ASSUME NEW k \in SeedKey PROVE role[id[k]] = NewRole(k, k \in ManagerKey)
    OBVIOUS
  <2>1. (CHOOSE j \in SeedKey : id[j] = id[k]) = k
    BY <1>1
  <2> QED
    BY <1>1, <2>1
<1>6. \A i \in RoleId : role[i] # None => \E k \in SeedKey : i = id[k]
  BY <1>1
<1>7. \A k \in SeedKey : NewRole(k, k \in ManagerKey) \in RoleRow
  BY SeedAssumption DEF NewRole, RoleRow
<1>8. \A k \in SeedKey : role[id[k]] # None /\ role[id[k]].key = k
  <2>1. \A k \in SeedKey : NewRole(k, k \in ManagerKey).key = k
    BY Zenon DEF NewRole
  <2> QED
    BY <1>5, <1>7, <2>1, NoneAssumption
<1>9. \A k \in SeedKey : ~role[id[k]].deleted
  <2>1. \A k \in SeedKey : ~NewRole(k, k \in ManagerKey).deleted
    BY Zenon DEF NewRole
  <2> QED
    BY <1>5, <2>1
<1>10. \A i \in ActiveRole : \E k \in SeedKey : i = id[k] /\ role[i].key = k
  BY <1>6, <1>8 DEF ActiveRole
<1>11. OwnerRoles = {w}
  <2>1. w \in ActiveRole /\ role[w].key = OwnerKey
    BY <1>4, <1>8, <1>9, SeedAssumption DEF ActiveRole
  <2>2. \A i \in ActiveRole : role[i].key = OwnerKey => i = w
    BY <1>10
  <2> QED
    BY <1>4, <2>1, <2>2 DEF OwnerRoles, IsOwnerRole
<1>12. CatalogInv
  <2>1. KeysAreUnique
    BY <1>10 DEF KeysAreUnique
  <2>2. \A i \in RoleId : role[i] # None /\ role[i].key = OwnerKey => ~role[i].deleted
    BY <1>6, <1>9
  <2> QED
    BY <1>11, <2>1, <2>2 DEF CatalogInv
<1> HIDE DEF w
<1>13. \A p \in Seat :
         \/ member[p] = None /\ (owner[p[1]] = None \/ owner[p[1]] # p[2])
         \/ member[p] = NewMember(w) /\ owner[p[1]] = p[2]
         \/ /\ owner[p[1]] # None /\ owner[p[1]] # p[2]
            /\ \E i \in RoleId \ {w} : member[p] = NewMember(i)
  <2> SUFFICES ASSUME NEW p \in Seat
               PROVE  \/ member[p] = None /\ (owner[p[1]] = None \/ owner[p[1]] # p[2])
                      \/ member[p] = NewMember(w) /\ owner[p[1]] = p[2]
                      \/ /\ owner[p[1]] # None /\ owner[p[1]] # p[2]
                         /\ \E i \in RoleId \ {w} : member[p] = NewMember(i)
    OBVIOUS
  <2>1. CASE owner[p[1]] = None
    <3>1. owner[p[1]] # p[2]
      BY <2>1, NoneAssumption DEF Seat
    <3>2. member[p] = None
      BY <1>2, <2>1, <3>1
    <3> QED
      BY <2>1, <3>2
  <2>2. CASE owner[p[1]] # None /\ owner[p[1]] = p[2]
    BY <1>2, <2>2 DEF w
  <2>3. CASE owner[p[1]] # None /\ owner[p[1]] # p[2]
    <3>1. member[p] = IF other[p] = None THEN None ELSE NewMember(other[p])
      BY <1>2, <2>3
    <3>2. other[p] # None => other[p] \in RoleId \ {w}
      BY <1>2, <1>4
    <3> QED
      BY <2>3, <3>1, <3>2
  <2> QED
    BY <2>1, <2>2, <2>3
<1>14. \A i \in RoleId : /\ NewMember(i) \in MemberRow /\ NewMember(i) # None
                         /\ NewMember(i).role = i /\ ~NewMember(i).deleted
  <2>1. \A i \in RoleId : NewMember(i) \in MemberRow
    BY DEF NewMember, MemberRow
  <2> QED
    BY <2>1, NoneAssumption DEF NewMember
<1>15. SingleOwner
  <2> SUFFICES ASSUME NEW o \in Org, Created(o) PROVE \E u \in User : Owners(o) = {u}
    BY DEF SingleOwner
  <2>1. \A u \in User : <<o, u>> \in Seat /\ <<o, u>>[1] = o /\ <<o, u>>[2] = u
    BY DEF Seat
  <2>2. PICK v \in User : member[<<o, v>>] # None
    BY DEF Created
  <2>3. owner[o] \in User
    BY <1>2, <1>13, <2>1, <2>2
  <2>4. \A u \in User : member[<<o, u>>] = NewMember(w) <=> u = owner[o]
    <3> SUFFICES ASSUME NEW u \in User
                 PROVE  member[<<o, u>>] = NewMember(w) <=> u = owner[o]
      OBVIOUS
    <3>1. \/ member[<<o, u>>] = None /\ owner[o] # u
          \/ member[<<o, u>>] = NewMember(w) /\ owner[o] = u
          \/ owner[o] # u /\ \E i \in RoleId \ {w} : member[<<o, u>>] = NewMember(i)
      BY <1>13, <2>1, <2>3, NoneAssumption
    <3>2. None # NewMember(w) /\ \A i \in RoleId \ {w} : NewMember(i) # NewMember(w)
      BY <1>4, <1>14
    <3> QED
      BY <3>1, <3>2
  <2>5. \A u \in User : member[<<o, u>>] # None /\ member[<<o, u>>].role = w <=> u = owner[o]
    BY <1>4, <1>13, <1>14, <2>1, <2>4
  <2>6. \A u \in User : <<o, u>> \in ActiveMember /\ member[<<o, u>>].role \in OwnerRoles <=> u = owner[o]
    BY <1>4, <1>11, <1>14, <2>1, <2>4, <2>5 DEF ActiveMember
  <2>7. Owners(o) = {owner[o]}
    BY <2>3, <2>6, OwnersAre
  <2> QED
    BY <2>3, <2>7
<1>16. TypeOK
  <2>1. role \in [RoleId -> RoleRow \cup {None}]
    BY <1>1, <1>5, <1>6, <1>7
  <2>2. member \in [Seat -> MemberRow \cup {None}]
    BY <1>2, <1>4, <1>13, <1>14
  <2> QED
    BY <1>3, <2>1, <2>2, IdleState DEF TypeOK
<1>17. AssignedRoleExists
  <2>1. \A p \in Seat : member[p] # None => \E k \in SeedKey : member[p] = NewMember(id[k])
    BY <1>2, SeedAssumption
  <2>2. \A k \in SeedKey : id[k] \in RoleId /\ id[k] \in ActiveRole
    BY <1>1, <1>8, <1>9 DEF ActiveRole
  <2> QED
    BY <1>14, <2>1, <2>2 DEF AssignedRoleExists, ActiveMember
<1> QED
  BY <1>3, <1>12, <1>15, <1>16, <1>17, IdleState DEF IInv
-----------------------------------------------------------------------------
\* The inductive invariant holds in every reachable state, and every step lets
\* the tables grow.
THEOREM Invariance == Spec => []IInv /\ [][TablesGrow]_vars
<1>1. Init => IInv
  BY InitStep
<1>2. IInv /\ [Next]_vars => IInv' /\ [TablesGrow]_vars
  <2> SUFFICES ASSUME IInv, [Next]_vars PROVE IInv' /\ [TablesGrow]_vars
    OBVIOUS
  <2>1. CASE Next
    BY <2>1, NextStep
  <2>2. CASE UNCHANGED vars
    BY <2>2 DEF vars, IInv, TypeOK, CatalogInv, SingleOwner, RequestInv, OwnerRoles, IsOwnerRole,
                KeysAreUnique, ActiveRole, ActiveMember, Owners, Created
  <2> QED
    BY <2>1, <2>2
<1> QED
  BY <1>1, <1>2, PTL DEF Spec

\* Every row and request has its type.
THEOREM TypeCorrect == Spec => []TypeOK
<1>1. IInv => TypeOK
  BY DEF IInv
<1> QED
  BY <1>1, Invariance, PTL

\* Every organization has one owner, whatever overlaps.
THEOREM OneOwner == Spec => []SingleOwner
<1>1. IInv => SingleOwner
  BY DEF IInv
<1> QED
  BY <1>1, Invariance, PTL

\* The catalog never holds two active roles with one key, ...
THEOREM UniqueKeys == Spec => []KeysAreUnique
<1>1. IInv => KeysAreUnique
  BY DEF IInv, CatalogInv
<1> QED
  BY <1>1, Invariance, PTL

\* ... and never lacks the owner role.
THEOREM OwnerRoleStays == Spec => []OwnerRoleAvailable
<1>1. IInv => OwnerRoleAvailable
  BY DEF IInv, CatalogInv, OwnerRoles, IsOwnerRole, OwnerRoleAvailable, KeyTaken
<1> QED
  BY <1>1, Invariance, PTL

\* The owner of an organization never changes.
THEOREM OwnershipStays == Spec => OwnershipNeverMoves
<1>1. IInv /\ [TablesGrow]_vars => [\A o \in Org : Created(o) => Owners(o)' = Owners(o)]_vars
  BY OwnersFrame DEF IInv
<1> QED
  BY <1>1, Invariance, PTL DEF OwnershipNeverMoves
-----------------------------------------------------------------------------
(* Requests in turn.                                                       *)

\* Requests come one at a time: of two slots one is idle.  Boots and creations
\* of organizations still come between the statements of a request.
InTurn ==
  \A q, r \in Request : request[q].step = "idle" \/ request[r].step = "idle" \/ q = r

\* What a request that is served alone knows at a step: what it read stands.
FreshAt(q, step) ==
  /\ q.op = "change" /\ step \in {"target", "currentRole", "owners", "write", "update"} =>
       q.role \in ActiveRole
  /\ q.op \in {"change", "remove"} /\ step \in {"currentRole", "owners", "write", "update"} =>
       q.target \in ActiveMember
  /\ q.op \in {"deleteRole", "updateRole", "permissions"} /\ step \in {"members", "write", "update"} =>
       q.role \in ActiveRole
  /\ q.op = "deleteRole" /\ step = "write" =>
       \A p \in ActiveMember : member[p].role # q.role
  /\ ~(q.op = "updateRole" /\ step = "update")

Fresh(q) == FreshAt(q, q.step)

TurnInv == AssignedRoleExists /\ \A r \in Request : Fresh(request[r])

\* No step restores a row.
MembersStayRemoved ==
  \A p \in Seat : member[p] # None /\ member[p].deleted => member'[p] # None /\ member'[p].deleted
RolesStayDeleted ==
  \A i \in RoleId : role[i] # None /\ role[i].deleted => role'[i] # None /\ role'[i].deleted
Kept == MembersStayRemoved /\ RolesStayDeleted

\* Who does nothing knows nothing.
LEMMA FreshIdle == ASSUME NEW q, q.op = "none" PROVE Fresh(q) /\ Fresh(q)'
BY DEF Fresh, FreshAt

\* A step that leaves the tables alone and serves one request.
LEMMA TurnRead ==
  ASSUME IInv, TurnInv, NEW r \in Request, NEW q, Fresh(q),
         request' = [request EXCEPT ![r] = q], UNCHANGED <<member, role>>
  PROVE  TurnInv' /\ Kept
<1>1. ActiveRole' = ActiveRole /\ ActiveMember' = ActiveMember
  BY DEF ActiveRole, ActiveMember
<1>2. AssignedRoleExists' /\ Kept
  BY <1>1 DEF TurnInv, AssignedRoleExists, Kept, MembersStayRemoved, RolesStayDeleted
<1>3. \A p \in Request : request'[p] = IF p = r THEN q ELSE request[p]
  BY DEF IInv, TypeOK
<1>4. \A p \in Request : Fresh(request'[p])
  BY <1>3 DEF TurnInv
<1>5. ASSUME NEW p \in Request PROVE Fresh(request[p])'
  <2>1. PICK n : n = request'[p]
    OBVIOUS
  <2>2. Fresh(n)
    BY <1>4, <2>1
  <2>3. Fresh(n)'
    BY <1>1, <2>2 DEF Fresh, FreshAt
  <2> QED
    BY <2>1, <2>3 DEF Fresh, FreshAt
<1> QED
  BY <1>2, <1>5 DEF TurnInv

\* A request that arrives has read nothing; one that is answered, either.
LEMMA TurnArrives ==
  ASSUME IInv, TurnInv, NEW r \in Request, Arrival(r)
  PROVE  TurnInv' /\ Kept
<1>1. PICK q : /\ request' = [request EXCEPT ![r] = q] /\ UNCHANGED <<member, role>>
               /\ q.step \in {"caller", "role", "key"}
  <2>1. ASSUME NEW o \in Org, NEW c \in User, NEW t \in User, ReceiveRemove(r, o, c, t)
        PROVE  \E q : /\ request' = [request EXCEPT ![r] = q] /\ UNCHANGED <<member, role>>
                      /\ q.step \in {"caller", "role", "key"}
    <3> DEFINE q == [Idle EXCEPT !.op = "remove", !.step = "caller", !.caller = <<o, c>>,
                                 !.target = <<o, t>>]
    <3>1. q.step = "caller"
      BY DEF Idle
    <3>2. request' = [request EXCEPT ![r] = q] /\ UNCHANGED <<member, role>>
      BY <2>1 DEF ReceiveRemove, Receive
    <3> HIDE DEF q
    <3> QED
      BY <3>1, <3>2
  <2>2. ASSUME NEW o \in Org, NEW c \in User, NEW t \in User, NEW i \in RoleId,
               ReceiveChange(r, o, c, t, i)
        PROVE  \E q : /\ request' = [request EXCEPT ![r] = q] /\ UNCHANGED <<member, role>>
                      /\ q.step \in {"caller", "role", "key"}
    <3> DEFINE q == [Idle EXCEPT !.op = "change", !.step = "caller", !.caller = <<o, c>>,
                                 !.target = <<o, t>>, !.role = i]
    <3>1. q.step = "caller"
      BY DEF Idle
    <3>2. request' = [request EXCEPT ![r] = q] /\ UNCHANGED <<member, role>>
      BY <2>2 DEF ReceiveChange, Receive
    <3> HIDE DEF q
    <3> QED
      BY <3>1, <3>2
  <2>3. ASSUME NEW i \in RoleId, NEW op \in {"deleteRole", "updateRole", "permissions"},
               Receive(r, [Idle EXCEPT !.op = op, !.step = "role", !.role = i])
        PROVE  \E q : /\ request' = [request EXCEPT ![r] = q] /\ UNCHANGED <<member, role>>
                      /\ q.step \in {"caller", "role", "key"}
    <3> DEFINE q == [Idle EXCEPT !.op = op, !.step = "role", !.role = i]
    <3>1. q.step = "role"
      BY DEF Idle
    <3>2. request' = [request EXCEPT ![r] = q] /\ UNCHANGED <<member, role>>
      BY <2>3 DEF Receive
    <3> HIDE DEF q
    <3> QED
      BY <3>1, <3>2
  <2>4. ASSUME NEW k \in Key, ReceiveCreateRole(r, k)
        PROVE  \E q : /\ request' = [request EXCEPT ![r] = q] /\ UNCHANGED <<member, role>>
                      /\ q.step \in {"caller", "role", "key"}
    <3> DEFINE q == [Idle EXCEPT !.op = "createRole", !.step = "key", !.key = k]
    <3>1. q.step = "key"
      BY DEF Idle
    <3>2. request' = [request EXCEPT ![r] = q] /\ UNCHANGED <<member, role>>
      BY <2>4 DEF ReceiveCreateRole, Receive
    <3> HIDE DEF q
    <3> QED
      BY <3>1, <3>2
  <2> QED
    BY <2>1, <2>2, <2>3, <2>4 DEF Arrival, ReceiveDeleteRole, ReceiveUpdateRole, ReceivePermissions
<1>2. Fresh(q)
  BY <1>1 DEF Fresh, FreshAt
<1> QED
  BY <1>1, <1>2, TurnRead

\* One that is answered knows nothing any more.
LEMMA TurnAnswers ==
  ASSUME IInv, TurnInv, NEW r \in Request, Answers(r), UNCHANGED <<member, role>>
  PROVE  TurnInv' /\ Kept
<1>1. Fresh(Idle)
  BY FreshIdle DEF Idle
<1> QED
  BY <1>1, TurnRead DEF Answers

\* A request goes on to a step; what it remembers besides matters to no later
\* write.
Proceeds(r, step) ==
  \/ Goes(r, step)
  \/ \E i : Remembers(r, i, step)
  \/ request' = [request EXCEPT ![r].caller = None, ![r].read = None, ![r].step = step]
  \/ \E set : request' = [request EXCEPT ![r].step = step, ![r].set = set]

\* A request goes on to a step that asks for no more than it knows.
LEMMA TurnProceeds ==
  ASSUME IInv, TurnInv, NEW r \in Request, NEW step, Proceeds(r, step),
         FreshAt(request[r], step), UNCHANGED <<member, role>>
  PROVE  TurnInv' /\ Kept
<1>1. PICK q \in RequestState : q = request[r]
  BY DEF IInv, TypeOK
<1>2. PICK n : /\ request' = [request EXCEPT ![r] = n]
               /\ n.op = q.op /\ n.role = q.role /\ n.target = q.target /\ n.step = step
  <2>1. CASE Goes(r, step)
    <3> DEFINE n == [q EXCEPT !.step = step]
    <3>1. n.op = q.op /\ n.role = q.role /\ n.target = q.target /\ n.step = step
      BY DEF RequestState
    <3>2. request' = [request EXCEPT ![r] = n]
      BY <1>1, <2>1 DEF Goes, IInv, TypeOK
    <3> HIDE DEF n
    <3> QED
      BY <3>1, <3>2
  <2>2. CASE \E i : Remembers(r, i, step)
    <3>1. PICK i : Remembers(r, i, step)
      BY <2>2
    <3> DEFINE n == [q EXCEPT !.step = step, !.read = i]
    <3>2. n.op = q.op /\ n.role = q.role /\ n.target = q.target /\ n.step = step
      BY DEF RequestState
    <3>3. request' = [request EXCEPT ![r] = n]
      BY <1>1, <3>1 DEF Remembers, IInv, TypeOK
    <3> HIDE DEF n
    <3> QED
      BY <3>2, <3>3
  <2>3. CASE request' = [request EXCEPT ![r].caller = None, ![r].read = None, ![r].step = step]
    <3> DEFINE n == [q EXCEPT !.caller = None, !.read = None, !.step = step]
    <3>1. n.op = q.op /\ n.role = q.role /\ n.target = q.target /\ n.step = step
      BY DEF RequestState
    <3>2. request' = [request EXCEPT ![r] = n]
      BY <1>1, <2>3 DEF IInv, TypeOK
    <3> HIDE DEF n
    <3> QED
      BY <3>1, <3>2
  <2>4. CASE \E set : request' = [request EXCEPT ![r].step = step, ![r].set = set]
    <3>1. PICK set : request' = [request EXCEPT ![r].step = step, ![r].set = set]
      BY <2>4
    <3> DEFINE n == [q EXCEPT !.step = step, !.set = set]
    <3>2. n.op = q.op /\ n.role = q.role /\ n.target = q.target /\ n.step = step
      BY DEF RequestState
    <3>3. request' = [request EXCEPT ![r] = n]
      BY <1>1, <3>1 DEF IInv, TypeOK
    <3> HIDE DEF n
    <3> QED
      BY <3>2, <3>3
  <2> QED
    BY <2>1, <2>2, <2>3, <2>4 DEF Proceeds
<1>3. Fresh(n)
  BY <1>1, <1>2 DEF Fresh, FreshAt
<1> QED
  BY <1>2, <1>3, TurnRead

\* The reads about a member.
LEMMA TurnMemberReads ==
  ASSUME IInv, TurnInv, NEW r \in Request,
         \/ ReadCaller(r) \/ CheckPermission(r) \/ ReadNewRole(r) \/ ReadTarget(r)
         \/ ReadCurrentRole(r) \/ CountOwners(r) \/ SelectMember(r)
  PROVE  TurnInv' /\ Kept
<1>1. PICK q \in RequestState : q = request[r]
  BY DEF IInv, TypeOK
<1>2. RequestInv(q) /\ Fresh(q) /\ UNCHANGED <<member, role>>
  BY <1>1 DEF IInv, TurnInv, ReadCaller, CheckPermission, ReadNewRole, ReadTarget, ReadCurrentRole,
              CountOwners, SelectMember
<1>3. Answers(r) \/ \E step : Proceeds(r, step) /\ FreshAt(q, step)
  <2>1. CASE ReadCaller(r)
    <3>1. q.step = "caller" /\ (Answers(r) \/ Proceeds(r, "permission"))
      BY <1>1, <2>1 DEF ReadCaller, Proceeds
    <3>2. FreshAt(q, "permission")
      BY <1>2, <3>1 DEF RequestInv, FreshAt
    <3> QED
      BY <3>1, <3>2
  <2>2. CASE CheckPermission(r)
    <3>1. q.step = "permission"
          /\ (Answers(r) \/ Proceeds(r, IF q.op = "change" THEN "newRole" ELSE "target"))
      BY <1>1, <2>2 DEF CheckPermission, Proceeds
    <3>2. FreshAt(q, IF q.op = "change" THEN "newRole" ELSE "target")
      BY <1>2, <3>1 DEF RequestInv, FreshAt
    <3> QED
      BY <3>1, <3>2
  <2>3. CASE ReadNewRole(r)
    <3>1. q.step = "newRole" /\ (Answers(r) \/ (Proceeds(r, "target") /\ q.role \in ActiveRole))
      BY <1>1, <2>3 DEF ReadNewRole, Proceeds
    <3>2. q.role \in ActiveRole => FreshAt(q, "target")
      BY <1>2, <3>1 DEF RequestInv, FreshAt
    <3> QED
      BY <3>1, <3>2
  <2>4. CASE ReadTarget(r)
    <3>1. q.step = "target" /\ (Answers(r) \/ (Proceeds(r, "currentRole") /\ q.target \in ActiveMember))
      BY <1>1, <2>4 DEF ReadTarget, Proceeds
    <3>2. q.target \in ActiveMember => FreshAt(q, "currentRole")
      BY <1>2, <3>1 DEF RequestInv, Fresh, FreshAt
    <3> QED
      BY <3>1, <3>2
  <2>5. CASE ReadCurrentRole(r)
    <3>1. q.step = "currentRole" /\ (Proceeds(r, "owners") \/ Proceeds(r, "write"))
      BY <1>1, <2>5 DEF ReadCurrentRole, Proceeds
    <3>2. FreshAt(q, "owners") /\ FreshAt(q, "write")
      BY <1>2, <3>1 DEF RequestInv, Fresh, FreshAt
    <3> QED
      BY <3>1, <3>2
  <2>6. CASE CountOwners(r)
    <3>1. q.step = "owners" /\ (Answers(r) \/ Proceeds(r, "write"))
      BY <1>1, <2>6 DEF CountOwners, Proceeds
    <3>2. FreshAt(q, "write")
      BY <1>2, <3>1 DEF RequestInv, Fresh, FreshAt
    <3> QED
      BY <3>1, <3>2
  <2>7. CASE SelectMember(r)
    <3>1. q.op = "change" /\ q.step = "write" /\ (Answers(r) \/ Proceeds(r, "update"))
      BY <1>1, <2>7 DEF SelectMember, Proceeds
    <3>2. FreshAt(q, "update")
      BY <1>2, <3>1 DEF Fresh, FreshAt
    <3> QED
      BY <3>1, <3>2
  <2> QED
    BY <2>1, <2>2, <2>3, <2>4, <2>5, <2>6, <2>7
<1> QED
  BY <1>1, <1>2, <1>3, TurnAnswers, TurnProceeds

\* The reads about a role: a role found is not deleted before it is written.
LEMMA TurnRoleReads ==
  ASSUME IInv, TurnInv, NEW r \in Request,
         FindRole(r) \/ CountMembers(r) \/ SelectRole(r) \/ FindKey(r)
  PROVE  TurnInv' /\ Kept
<1>1. PICK q \in RequestState : q = request[r]
  BY DEF IInv, TypeOK
<1>2. RequestInv(q) /\ Fresh(q) /\ UNCHANGED <<member, role>>
  BY <1>1 DEF IInv, TurnInv, FindRole, CountMembers, SelectRole, FindKey
<1>3. Answers(r) \/ \E step : Proceeds(r, step) /\ FreshAt(q, step)
  <2>1. CASE FindRole(r)
    <3>1. q.step = "role" /\ (\/ Answers(r)
                              \/ /\ Proceeds(r, IF q.op = "deleteRole" THEN "members" ELSE "write")
                                 /\ q.role \in ActiveRole)
      BY <1>1, <2>1 DEF FindRole, Proceeds
    <3>2. q.role \in ActiveRole => FreshAt(q, IF q.op = "deleteRole" THEN "members" ELSE "write")
      BY <1>2, <3>1 DEF RequestInv, FreshAt
    <3> QED
      BY <3>1, <3>2
  <2>2. CASE CountMembers(r)
    <3>1. q.step = "members"
          /\ (Answers(r) \/ (Proceeds(r, "write") /\ \A o \in Org : Holding(o, q.role) = {}))
      BY <1>1, <2>2 DEF CountMembers, Proceeds
    <3>2. ASSUME \A o \in Org : Holding(o, q.role) = {} PROVE FreshAt(q, "write")
      <4>1. ASSUME NEW p \in ActiveMember PROVE member[p].role # q.role
        <5>1. PICK o \in Org, u \in User : p = <<o, u>>
          BY DEF ActiveMember, Seat
        <5> QED
          BY <3>2, <5>1 DEF Holding
      <4> QED
        BY <1>2, <3>1, <4>1 DEF RequestInv, Fresh, FreshAt
    <3> QED
      BY <3>1, <3>2
  <2>3. CASE SelectRole(r)
    <3>1. q.role \in ActiveRole
      BY <1>1, <1>2, <2>3 DEF SelectRole, Fresh, FreshAt
    <3> QED
      BY <1>1, <2>3, <3>1 DEF SelectRole, ActiveRole
  <2>4. CASE FindKey(r)
    <3>1. q.step = "key" /\ (Answers(r) \/ Proceeds(r, "write"))
      BY <1>1, <2>4 DEF FindKey, Proceeds
    <3>2. FreshAt(q, "write")
      BY <1>2, <3>1 DEF RequestInv, FreshAt
    <3> QED
      BY <3>1, <3>2
  <2> QED
    BY <2>1, <2>2, <2>3, <2>4
<1> QED
  BY <1>1, <1>2, <1>3, TurnAnswers, TurnProceeds

\* After a write of the one request in flight nobody is in flight.
LEMMA TurnWrite ==
  ASSUME IInv, InTurn, NEW r \in Request, request[r].step # "idle", Answers(r), AssignedRoleExists'
  PROVE  TurnInv'
<1>1. \A p \in Request : p # r => request[p].op = "none"
  BY DEF InTurn, IInv, RequestInv
<1>2. \A p \in Request : request'[p].op = "none"
  BY <1>1 DEF Answers, Idle, IInv, TypeOK
<1>3. ASSUME NEW p \in Request PROVE Fresh(request[p])'
  BY <1>2 DEF Fresh, FreshAt
<1> QED
  BY <1>3 DEF TurnInv

\* The membership rows but one stay; that one is active and stays what it
\* should be, or goes.
LEMMA TurnMemberWrites ==
  ASSUME IInv, TurnInv, InTurn, NEW r \in Request, UpdateMember(r) \/ SoftDeleteMember(r)
  PROVE  TurnInv' /\ Kept
<1>1. PICK q \in RequestState : q = request[r]
  BY DEF IInv, TypeOK
<1>2. /\ RequestInv(q) /\ Fresh(q) /\ q.op \in {"change", "remove"} /\ q.step \in {"write", "update"}
      /\ Answers(r) /\ UNCHANGED role
  BY <1>1 DEF IInv, TurnInv, UpdateMember, SoftDeleteMember
<1>3. q.target \in ActiveMember /\ q.target \in Seat
  BY <1>2 DEF Fresh, FreshAt, ActiveMember
<1>4. /\ member[q.target] \in MemberRow /\ ~member[q.target].deleted
      /\ member[q.target].role \in ActiveRole
  BY <1>3 DEF IInv, TypeOK, ActiveMember, TurnInv, AssignedRoleExists
<1>5. PICK row \in MemberRow : /\ member' = [member EXCEPT ![q.target] = row]
                               /\ row.role \in ActiveRole
  <2>1. CASE UpdateMember(r)
    <3> DEFINE row == [role |-> IF "role" \in q.set THEN q.role ELSE member[q.target].role,
                       deleted |-> member[q.target].deleted /\ "deleted" \notin q.set]
    <3>1. q.role \in ActiveRole
      BY <1>1, <1>2, <2>1 DEF UpdateMember, Fresh, FreshAt
    <3>2. row \in MemberRow /\ row.role \in ActiveRole
      BY <1>4, <3>1 DEF MemberRow, ActiveRole
    <3>3. member' = [member EXCEPT ![q.target] = row]
      BY <1>1, <2>1 DEF UpdateMember
    <3> HIDE DEF row
    <3> QED
      BY <3>2, <3>3
  <2>2. CASE SoftDeleteMember(r)
    <3> DEFINE row == [member[q.target] EXCEPT !.deleted = TRUE]
    <3>1. row \in MemberRow /\ row.role \in ActiveRole
      BY <1>4 DEF MemberRow
    <3>2. member' = [member EXCEPT ![q.target] = row]
      BY <1>1, <2>2 DEF SoftDeleteMember
    <3> HIDE DEF row
    <3> QED
      BY <3>1, <3>2
  <2> QED
    BY <2>1, <2>2
<1>6. member'[q.target] = row /\ \A p \in Seat : p # q.target => member'[p] = member[p]
  BY <1>3, <1>5 DEF IInv, TypeOK
<1>7. AssignedRoleExists'
  <2>1. ActiveRole' = ActiveRole
    BY <1>2 DEF ActiveRole
  <2>2. \A p \in ActiveMember' : p = q.target \/ p \in ActiveMember
    BY <1>6 DEF ActiveMember
  <2>3. \A p \in ActiveMember' : p \in Seat
    BY DEF ActiveMember
  <2> QED
    BY <1>5, <1>6, <2>1, <2>2, <2>3 DEF TurnInv, AssignedRoleExists
<1>8. Kept
  BY <1>2, <1>4, <1>6 DEF Kept, MembersStayRemoved, RolesStayDeleted
<1> QED
  BY <1>1, <1>2, <1>7, <1>8, TurnWrite

\* The roles but one stay; that one was active or not there, and is deleted
\* only if nobody has it.
LEMMA TurnRoleWrites ==
  ASSUME IInv, TurnInv, InTurn, NEW r \in Request,
         \/ SoftDeleteRole(r) \/ \E m \in BOOLEAN : WritePermissions(r, m)
         \/ UpdateRole(r) \/ \E i \in RoleId : InsertRole(r, i)
  PROVE  TurnInv' /\ Kept
<1>1. PICK q \in RequestState : q = request[r]
  BY DEF IInv, TypeOK
<1>2. /\ RequestInv(q) /\ Fresh(q) /\ q.step \in {"write", "update"}
      /\ Answers(r) /\ UNCHANGED member
  BY <1>1 DEF IInv, TurnInv, SoftDeleteRole, WritePermissions, UpdateRole, InsertRole
<1>3. \/ UNCHANGED role
      \/ \E i \in RoleId, row \in RoleRow :
           /\ role' = [role EXCEPT ![i] = row]
           /\ role[i] = None \/ ~role[i].deleted
           /\ row.deleted => \A p \in ActiveMember : member[p].role # i
  <2>1. CASE SoftDeleteRole(r)
    <3>1. q.op = "deleteRole" /\ q.step = "write"
      BY <1>1, <2>1 DEF SoftDeleteRole
    <3>2. q.role \in ActiveRole /\ \A p \in ActiveMember : member[p].role # q.role
      BY <1>2, <3>1 DEF Fresh, FreshAt
    <3> DEFINE row == [role[q.role] EXCEPT !.deleted = TRUE]
    <3>3. q.role \in RoleId /\ role[q.role] \in RoleRow /\ ~role[q.role].deleted
      BY <3>2 DEF IInv, TypeOK, ActiveRole
    <3>4. row \in RoleRow
      BY <3>3 DEF RoleRow
    <3>5. role' = [role EXCEPT ![q.role] = row]
      BY <1>1, <2>1 DEF SoftDeleteRole
    <3> HIDE DEF row
    <3> QED
      BY <3>2, <3>3, <3>4, <3>5
  <2>2. ASSUME NEW m \in BOOLEAN, WritePermissions(r, m)
        PROVE  \E i \in RoleId, row \in RoleRow :
                 /\ role' = [role EXCEPT ![i] = row]
                 /\ role[i] = None \/ ~role[i].deleted
                 /\ row.deleted => \A p \in ActiveMember : member[p].role # i
    <3>1. q.role \in ActiveRole
      BY <1>1, <1>2, <2>2 DEF WritePermissions, Fresh, FreshAt
    <3> DEFINE row == [role[q.role] EXCEPT !.manages = m]
    <3>2. q.role \in RoleId /\ role[q.role] \in RoleRow /\ ~role[q.role].deleted
      BY <3>1 DEF IInv, TypeOK, ActiveRole
    <3>3. row \in RoleRow /\ ~row.deleted
      BY <3>2 DEF RoleRow
    <3>4. role' = [role EXCEPT ![q.role] = row]
      BY <1>1, <2>2 DEF WritePermissions
    <3> HIDE DEF row
    <3> QED
      BY <3>2, <3>3, <3>4
  <2>3. ~UpdateRole(r)
    BY <1>1, <1>2 DEF UpdateRole, Fresh, FreshAt
  <2>4. ASSUME NEW i \in RoleId, InsertRole(r, i), ~UNCHANGED role
        PROVE  \E row \in RoleRow :
                 /\ role' = [role EXCEPT ![i] = row] /\ role[i] = None /\ ~row.deleted
    <3> DEFINE row == NewRole(q.key, FALSE)
    <3>1. q.op = "createRole" /\ role' = [role EXCEPT ![i] = row] /\ role[i] = None
      BY <1>1, <2>4 DEF InsertRole
    <3>2. row \in RoleRow /\ ~row.deleted
      BY <1>2, <3>1 DEF NewRole, RoleRow, RequestInv
    <3> HIDE DEF row
    <3> QED
      BY <3>1, <3>2
  <2> QED
    BY <2>1, <2>2, <2>3, <2>4
<1>4. CASE UNCHANGED role
  BY <1>2, <1>4, TurnAnswers
<1>5. CASE \E i \in RoleId, row \in RoleRow :
             /\ role' = [role EXCEPT ![i] = row]
             /\ role[i] = None \/ ~role[i].deleted
             /\ row.deleted => \A p \in ActiveMember : member[p].role # i
  <2>1. PICK i \in RoleId, row \in RoleRow :
             /\ role' = [role EXCEPT ![i] = row]
             /\ role[i] = None \/ ~role[i].deleted
             /\ row.deleted => \A p \in ActiveMember : member[p].role # i
    BY <1>5
  <2>2. /\ role'[i] = row /\ row # None
        /\ \A j \in RoleId : j # i => role'[j] = role[j]
    BY <2>1, NoneAssumption DEF IInv, TypeOK
  <2>3. \A j \in ActiveRole : j \in ActiveRole' \/ (j = i /\ row.deleted)
    BY <2>2 DEF ActiveRole
  <2>4. ActiveMember' = ActiveMember
    BY <1>2 DEF ActiveMember
  <2>5. AssignedRoleExists'
    BY <1>2, <2>1, <2>3, <2>4 DEF TurnInv, AssignedRoleExists
  <2>6. Kept
    BY <1>2, <2>1, <2>2 DEF Kept, MembersStayRemoved, RolesStayDeleted
  <2>7. request[r].step # "idle"
    BY <1>1, <1>2
  <2> QED
    BY <1>2, <2>5, <2>6, <2>7, TurnWrite
<1> QED
  BY <1>3, <1>4, <1>5

\* What comes between the statements of a request adds rows and changes none:
\* a boot to the catalog, a creation an owner to a new organization.
LEMMA TurnGrows ==
  ASSUME IInv, TurnInv, UNCHANGED request,
         ActiveRole \subseteq ActiveRole', ActiveMember \subseteq ActiveMember',
         \A p \in ActiveMember' : \/ p \in ActiveMember /\ member'[p] = member[p]
                                  \/ member'[p].role \in OwnerRoles
  PROVE  TurnInv'
<1>1. AssignedRoleExists'
  BY DEF TurnInv, AssignedRoleExists, OwnerRoles, IsOwnerRole
<1>2. ASSUME NEW r \in Request PROVE Fresh(request[r])'
  <2>1. Fresh(request[r]) /\ RequestInv(request[r])
    BY DEF TurnInv, IInv
  <2> QED
    BY <2>1 DEF Fresh, FreshAt, RequestInv
<1> QED
  BY <1>1, <1>2 DEF TurnInv

\* A new organization has an owner, with the owner role.
LEMMA TurnCreates ==
  ASSUME IInv, TurnInv, NEW o \in Org, NEW u \in User, CreateOrganization(o, u)
  PROVE  TurnInv' /\ Kept
<1>1. PICK i \in OwnerRoles : member' = [member EXCEPT ![<<o, u>>] = NewMember(i)]
  BY DEF CreateOrganization, OwnerRoles
<1>2. UNCHANGED <<role, request>> /\ member[<<o, u>>] = None /\ <<o, u>> \in Seat
  BY DEF CreateOrganization, Seat
<1>3. /\ member'[<<o, u>>].role = i
      /\ \A p \in Seat : p # <<o, u>> => member'[p] = member[p]
  BY <1>1, <1>2 DEF IInv, TypeOK, NewMember
<1>4. /\ ActiveMember \subseteq ActiveMember'
      /\ \A p \in ActiveMember' : \/ p \in ActiveMember /\ member'[p] = member[p]
                                  \/ member'[p].role \in OwnerRoles
  BY <1>2, <1>3 DEF ActiveMember
<1>5. Kept
  BY <1>2, <1>3 DEF Kept, MembersStayRemoved, RolesStayDeleted
<1>6. ActiveRole \subseteq ActiveRole'
  BY <1>2 DEF ActiveRole
<1> QED
  BY <1>2, <1>4, <1>5, <1>6, TurnGrows

\* A boot gives roles to ids that had none.
LEMMA TurnBoots ==
  ASSUME IInv, TurnInv, Boot
  PROVE  TurnInv' /\ Kept
<1>1. \A i \in RoleId : role[i] # None => role'[i] = role[i]
  BY DEF Boot
<1>2. UNCHANGED <<member, request>> /\ ActiveMember' = ActiveMember
  BY DEF Boot, ActiveMember
<1>3. ActiveRole \subseteq ActiveRole' /\ Kept
  BY <1>1, <1>2 DEF ActiveRole, Kept, MembersStayRemoved, RolesStayDeleted
<1> QED
  BY <1>2, <1>3, TurnGrows

\* Every step of requests in turn keeps what they know, and restores nothing.
LEMMA TurnNext == IInv /\ TurnInv /\ InTurn /\ [Next]_vars => TurnInv' /\ [Kept]_vars
<1> SUFFICES ASSUME IInv, TurnInv, InTurn, [Next]_vars PROVE TurnInv' /\ [Kept]_vars
  OBVIOUS
<1>1. CASE UNCHANGED vars
  <2>1. TurnInv'
    BY <1>1 DEF vars, TurnInv, AssignedRoleExists, Fresh, FreshAt, ActiveRole, ActiveMember
  <2> QED
    BY <1>1, <2>1
<1>2. ASSUME NEW r \in Request, ManageMember(r) PROVE TurnInv' /\ Kept
  BY <1>2, TurnMemberReads, TurnMemberWrites DEF ManageMember
<1>3. ASSUME NEW r \in Request, ManageRole(r) PROVE TurnInv' /\ Kept
  BY <1>3, TurnRoleReads, TurnRoleWrites DEF ManageRole
<1>4. ASSUME NEW r \in Request, Fail(r) PROVE TurnInv' /\ Kept
  BY <1>4, TurnAnswers DEF Fail
<1> QED
  BY <1>1, <1>2, <1>3, <1>4, TurnArrives, TurnCreates, TurnBoots DEF Next

\* The first boot and the earlier releases leave each member a seeded role.
LEMMA TurnInit == Init => TurnInv
<1> SUFFICES ASSUME Init PROVE TurnInv
  OBVIOUS
<1>1. AssignedRoleExists
  BY InitStep
<1>2. \A r \in Request : request[r] = Idle
  BY DEF Init
<1>3. Fresh(Idle)
  BY FreshIdle DEF Idle
<1> QED
  BY <1>1, <1>2, <1>3 DEF TurnInv

\* While requests come one at a time ...
LEMMA TurnHolds == Spec /\ []InTurn => []TurnInv /\ [][Kept]_vars
<1> QED
  BY TurnInit, TurnNext, Invariance, PTL DEF Spec

\* ... the role of an active member is in the catalog, ...
THEOREM RoleExistsInTurn == Spec /\ []InTurn => []AssignedRoleExists
<1>1. TurnInv => AssignedRoleExists
  BY DEF TurnInv
<1> QED
  BY <1>1, TurnHolds, PTL

\* ... a removed member stays removed, ...
THEOREM RemovedInTurn == Spec /\ []InTurn => RemovedStaysRemoved
<1>1. [Kept]_vars =>
        [\A p \in Seat :
          member[p] # None /\ member[p].deleted => member'[p] # None /\ member'[p].deleted]_vars
  BY DEF Kept, MembersStayRemoved
<1> QED
  BY <1>1, TurnHolds, PTL DEF RemovedStaysRemoved

\* ... and a deleted role deleted.
THEOREM DeletedInTurn == Spec /\ []InTurn => DeletedRoleStaysDeleted
<1>1. [Kept]_vars =>
        [\A i \in RoleId :
          role[i] # None /\ role[i].deleted => role'[i] # None /\ role'[i].deleted]_vars
  BY DEF Kept, RolesStayDeleted
<1> QED
  BY <1>1, TurnHolds, PTL DEF DeletedRoleStaysDeleted
=============================================================================

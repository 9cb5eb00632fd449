----------------------------- MODULE Memberships ----------------------------
(***************************************************************************)
(* The memberships of the organizations and the role catalog they refer    *)
(* to: changing a member's role, removing a member, creating an            *)
(* organization, and the administration and seeding of the catalog.        *)
(*                                                                         *)
(* No request but the creation of an organization uses a transaction: each *)
(* statement commits by itself and every step below is one statement, so a *)
(* request decides on rows that may have changed when it writes.  Saving a *)
(* loaded entity is a SELECT of the row, deleted or not, and an UPDATE of  *)
(* the columns in which the entity differs from it: an entity loaded       *)
(* before a soft delete writes the row back to life.                       *)
(*                                                                         *)
(* A request slot is free again once its request is answered, so the       *)
(* number of slots bounds the requests that overlap, not their number.     *)
(***************************************************************************)
EXTENDS FiniteSets, Naturals

CONSTANTS Org,         \* organizations (bounds their number)
          User,        \* users; nothing in the program deletes one
          RoleId,      \* the UUIDs a role can get (bounds the roles ever created)
          Key,         \* role keys
          OwnerKey,    \* the key of the owner role
          ManagerKey,  \* the keys seeded with the permission to manage members
          SeedKey,     \* the keys of the initial catalog
          Request,     \* request slots
          None         \* no row, no value

VARIABLES member,   \* the membership row of each seat, or None
          role,     \* the row of each role id, or None
          request   \* what each slot is doing

vars == <<member, role, request>>

\* A user in an organization; a row is only ever created with its organization,
\* so there is one row per seat at most.
Seat == Org \X User

MemberRow == [role: RoleId, deleted: BOOLEAN]
RoleRow == [key: Key, manages: BOOLEAN, deleted: BOOLEAN]

Op == {"none", "change", "remove", "deleteRole", "updateRole", "createRole", "permissions"}
Step == {"idle", "caller", "permission", "newRole", "target", "currentRole", "owners",
         "write", "update", "role", "members", "key"}

RequestState == [op: Op, step: Step, caller: Seat \cup {None}, target: Seat \cup {None},
                 role: RoleId \cup {None}, read: RoleId \cup {None},
                 key: Key \cup {None}, set: SUBSET {"role", "deleted"}]

\* None is no row and no value; the seeder seeds the owner role among others.
ASSUME NoneAssumption ==
  /\ None \notin MemberRow /\ None \notin RoleRow
  /\ None \notin Seat /\ None \notin User /\ None \notin RoleId /\ None \notin Key
ASSUME SeedAssumption == OwnerKey \in SeedKey /\ SeedKey \subseteq Key

Idle == [op |-> "none", step |-> "idle", caller |-> None, target |-> None,
         role |-> None, read |-> None, key |-> None, set |-> {}]

\* What the queries of the repositories see: rows that are not soft-deleted.
ActiveRole == {i \in RoleId : role[i] # None /\ ~role[i].deleted}
ActiveMember == {p \in Seat : member[p] # None /\ ~member[p].deleted}

IsOwnerRole(i) == i \in ActiveRole /\ role[i].key = OwnerKey
KeyTaken(k) == \E i \in ActiveRole : role[i].key = k

NewRole(k, m) == [key |-> k, manages |-> m, deleted |-> FALSE]
NewMember(i) == [role |-> i, deleted |-> FALSE]

\* The first boot has seeded the catalog.  Earlier releases added members by
\* invitation: an organization may start with its owner and such members.
Init ==
  /\ \E id \in [SeedKey -> RoleId] :
       /\ \A j, k \in SeedKey : id[j] = id[k] => j = k
       /\ role = [i \in RoleId |->
            IF \E k \in SeedKey : id[k] = i
            THEN NewRole(CHOOSE k \in SeedKey : id[k] = i,
                         (CHOOSE k \in SeedKey : id[k] = i) \in ManagerKey)
            ELSE None]
       /\ \E owner \in [Org -> User \cup {None}],
             other \in [Seat -> {id[k] : k \in SeedKey \ {OwnerKey}} \cup {None}] :
            member = [p \in Seat |->
              IF owner[p[1]] = p[2] THEN NewMember(id[OwnerKey])
              ELSE IF owner[p[1]] # None /\ other[p] # None THEN NewMember(other[p]) ELSE None]
  /\ request = [r \in Request |-> Idle]

Receive(r, q) ==
  /\ request[r].step = "idle"
  /\ request' = [request EXCEPT ![r] = q]
  /\ UNCHANGED <<member, role>>

\* The request goes on; the request is answered, whatever the answer.
Goes(r, step) == request' = [request EXCEPT ![r].step = step]
Remembers(r, i, step) == request' = [request EXCEPT ![r].step = step, ![r].read = i]
Answers(r) == request' = [request EXCEPT ![r] = Idle]
-----------------------------------------------------------------------------
(* Members: PATCH and DELETE /organizations/:id/members/:userId.           *)

ReceiveChange(r, o, c, t, i) ==
  Receive(r, [Idle EXCEPT !.op = "change", !.step = "caller", !.caller = <<o, c>>,
                          !.target = <<o, t>>, !.role = i])

ReceiveRemove(r, o, c, t) ==
  Receive(r, [Idle EXCEPT !.op = "remove", !.step = "caller", !.caller = <<o, c>>,
                          !.target = <<o, t>>])

\* requirePermission: the membership of the caller, then what its role grants.
ReadCaller(r) ==
  LET q == request[r]
  IN  /\ q.step = "caller"
      /\ IF q.caller \in ActiveMember
         THEN Remembers(r, member[q.caller].role, "permission")
         ELSE Answers(r)
      /\ UNCHANGED <<member, role>>

\* Nobody changes the role of their own membership.
CheckPermission(r) ==
  LET q == request[r]
      granted == q.read \in ActiveRole /\ role[q.read].manages
  IN  /\ q.step = "permission"
      /\ IF granted /\ (q.op = "change" => q.caller # q.target)
         THEN request' = [request EXCEPT ![r].caller = None, ![r].read = None,
                            ![r].step = IF q.op = "change" THEN "newRole" ELSE "target"]
         ELSE Answers(r)
      /\ UNCHANGED <<member, role>>

\* Mutant: the owner role can be assigned like any other.
ReadNewRoleAny(r) ==
  /\ request[r].step = "newRole"
  /\ IF request[r].role \in ActiveRole THEN Goes(r, "target") ELSE Answers(r)
  /\ UNCHANGED <<member, role>>

\* An unknown role, or the owner role, is not assignable.
ReadNewRole(r) ==
  LET i == request[r].role
  IN  /\ request[r].step = "newRole"
      /\ IF i \in ActiveRole /\ ~IsOwnerRole(i) THEN Goes(r, "target") ELSE Answers(r)
      /\ UNCHANGED <<member, role>>

\* Mutant: the target is looked up among the removed members too.
ReadTargetRemoved(r) ==
  LET q == request[r]
  IN  /\ q.step = "target"
      /\ IF member[q.target] # None /\ member[q.target].role # q.role
         THEN Remembers(r, member[q.target].role, "currentRole")
         ELSE Answers(r)
      /\ UNCHANGED <<member, role>>

\* The entity of the target is loaded, with its role.
ReadTarget(r) ==
  LET q == request[r]
  IN  /\ q.step = "target"
      /\ IF q.target \in ActiveMember /\ member[q.target].role # q.role
         THEN Remembers(r, member[q.target].role, "currentRole")
         ELSE Answers(r)
      /\ UNCHANGED <<member, role>>

ReadCurrentRole(r) ==
  /\ request[r].step = "currentRole"
  /\ Goes(r, IF IsOwnerRole(request[r].read) THEN "owners" ELSE "write")
  /\ UNCHANGED <<member, role>>

\* The active members of o with role i.
Holding(o, i) == {u \in User : <<o, u>> \in ActiveMember /\ member[<<o, u>>].role = i}

\* Mutant: the sole owner is only protected when there is none.
CountOwnersOffByOne(r) ==
  LET q == request[r]
  IN  /\ q.step = "owners"
      /\ IF Cardinality(Holding(q.target[1], q.read)) <= 0 THEN Answers(r) ELSE Goes(r, "write")
      /\ UNCHANGED <<member, role>>

\* The sole owner is neither demoted nor removed.
CountOwners(r) ==
  LET q == request[r]
  IN  /\ q.step = "owners"
      /\ IF Cardinality(Holding(q.target[1], q.read)) <= 1 THEN Answers(r) ELSE Goes(r, "write")
      /\ UNCHANGED <<member, role>>

\* The SELECT of save finds the columns the loaded entity would change.
SelectMember(r) ==
  LET q == request[r]
      row == member[q.target]
      set == (IF row.role # q.role THEN {"role"} ELSE {})
               \cup (IF row.deleted THEN {"deleted"} ELSE {})
  IN  /\ q.op = "change" /\ q.step = "write"
      /\ IF set = {} THEN Answers(r)
         ELSE request' = [request EXCEPT ![r].step = "update", ![r].set = set]
      /\ UNCHANGED <<member, role>>

UpdateMember(r) ==
  LET q == request[r]
      row == member[q.target]
  IN  /\ q.op = "change" /\ q.step = "update"
      /\ member' = [member EXCEPT ![q.target] =
           [role |-> IF "role" \in q.set THEN q.role ELSE row.role,
            deleted |-> row.deleted /\ "deleted" \notin q.set]]
      /\ Answers(r)
      /\ UNCHANGED role

SoftDeleteMember(r) ==
  LET q == request[r]
  IN  /\ q.op = "remove" /\ q.step = "write"
      /\ member' = [member EXCEPT ![q.target].deleted = TRUE]
      /\ Answers(r)
      /\ UNCHANGED role

\* The organization and the membership of its creator are one transaction.
CreateOrganization(o, u) ==
  /\ \A v \in User : member[<<o, v>>] = None
  /\ \E i \in RoleId :
       /\ IsOwnerRole(i)
       /\ member' = [member EXCEPT ![<<o, u>>] = NewMember(i)]
  /\ UNCHANGED <<role, request>>
-----------------------------------------------------------------------------
(* The catalog: /admin/roles and the seeder.                               *)

ReceiveDeleteRole(r, i) == Receive(r, [Idle EXCEPT !.op = "deleteRole", !.step = "role", !.role = i])
ReceiveUpdateRole(r, i) == Receive(r, [Idle EXCEPT !.op = "updateRole", !.step = "role", !.role = i])
ReceivePermissions(r, i) == Receive(r, [Idle EXCEPT !.op = "permissions", !.step = "role", !.role = i])
ReceiveCreateRole(r, k) == Receive(r, [Idle EXCEPT !.op = "createRole", !.step = "key", !.key = k])

\* Mutant: the owner role can be deleted while no organization uses it.
FindRoleUnprotected(r) ==
  LET q == request[r]
  IN  /\ q.step = "role"
      /\ IF q.role \in ActiveRole
         THEN Goes(r, IF q.op = "deleteRole" THEN "members" ELSE "write")
         ELSE Answers(r)
      /\ UNCHANGED <<member, role>>

\* Mutant: the role is looked up among the deleted ones too.
FindRoleDeleted(r) ==
  LET q == request[r]
  IN  /\ q.step = "role"
      /\ IF role[q.role] # None /\ ~(q.op = "deleteRole" /\ IsOwnerRole(q.role))
         THEN Goes(r, IF q.op = "deleteRole" THEN "members" ELSE "write")
         ELSE Answers(r)
      /\ UNCHANGED <<member, role>>

\* The owner role is not deleted; its fields and permissions are editable.
FindRole(r) ==
  LET q == request[r]
  IN  /\ q.step = "role"
      /\ IF q.role \in ActiveRole /\ ~(q.op = "deleteRole" /\ IsOwnerRole(q.role))
         THEN Goes(r, IF q.op = "deleteRole" THEN "members" ELSE "write")
         ELSE Answers(r)
      /\ UNCHANGED <<member, role>>

\* Mutant: a role is deleted without looking at the memberships.
CountMembersSkipped(r) ==
  request[r].step = "members" /\ Goes(r, "write") /\ UNCHANGED <<member, role>>

\* A role with members, in any organization, is in use.
CountMembers(r) ==
  /\ request[r].step = "members"
  /\ IF \E o \in Org : Holding(o, request[r].role) # {} THEN Answers(r) ELSE Goes(r, "write")
  /\ UNCHANGED <<member, role>>

SoftDeleteRole(r) ==
  /\ request[r].op = "deleteRole" /\ request[r].step = "write"
  /\ role' = [role EXCEPT ![request[r].role].deleted = TRUE]
  /\ Answers(r)
  /\ UNCHANGED member

\* The permissions of the role are replaced, in a transaction of its own.
WritePermissions(r, m) ==
  /\ request[r].op = "permissions" /\ request[r].step = "write"
  /\ role' = [role EXCEPT ![request[r].role].manages = m]
  /\ Answers(r)
  /\ UNCHANGED member

\* The SELECT of save; name and level are not modelled, deleted_at is.
SelectRole(r) ==
  /\ request[r].op = "updateRole" /\ request[r].step = "write"
  /\ IF role[request[r].role].deleted THEN Goes(r, "update") ELSE Answers(r)
  /\ UNCHANGED <<member, role>>

\* The UPDATE restores the row unless its key has been taken meanwhile.
UpdateRole(r) ==
  LET i == request[r].role
  IN  /\ request[r].op = "updateRole" /\ request[r].step = "update"
      /\ \/ /\ ~KeyTaken(role[i].key)
            /\ role' = [role EXCEPT ![i].deleted = FALSE]
         \/ KeyTaken(role[i].key) /\ UNCHANGED role
      /\ Answers(r)
      /\ UNCHANGED member

FindKey(r) ==
  /\ request[r].step = "key"
  /\ IF KeyTaken(request[r].key) THEN Answers(r) ELSE Goes(r, "write")
  /\ UNCHANGED <<member, role>>

\* Mutant: the index on the key is not unique.
InsertRoleTwice(r, i) ==
  /\ request[r].op = "createRole" /\ request[r].step = "write" /\ role[i] = None
  /\ role' = [role EXCEPT ![i] = NewRole(request[r].key, FALSE)]
  /\ Answers(r) /\ UNCHANGED member

\* Mutant: the key is left out of the created row.
InsertRoleNoKey(r, i) ==
  /\ request[r].op = "createRole" /\ request[r].step = "write" /\ role[i] = None
  /\ role' = [role EXCEPT ![i] = NewRole(None, FALSE)]
  /\ Answers(r) /\ UNCHANGED member

\* The unique index on the key of the active roles has the last word.
InsertRole(r, i) ==
  /\ request[r].op = "createRole" /\ request[r].step = "write"
  /\ role[i] = None
  /\ \/ /\ ~KeyTaken(request[r].key)
        /\ role' = [role EXCEPT ![i] = NewRole(request[r].key, FALSE)]
     \/ KeyTaken(request[r].key) /\ UNCHANGED role
  /\ Answers(r)
  /\ UNCHANGED member

\* A process boots: its seeder creates the roles of the initial catalog that
\* are missing, one transaction for all of them.
Boot ==
  LET missing == {k \in SeedKey : ~KeyTaken(k)}
  IN  /\ \E id \in [missing -> {i \in RoleId : role[i] = None}] :
           /\ \A j, k \in missing : id[j] = id[k] => j = k
           /\ role' = [i \in RoleId |->
                IF \E k \in missing : id[k] = i
                THEN NewRole(CHOOSE k \in missing : id[k] = i,
                             (CHOOSE k \in missing : id[k] = i) \in ManagerKey)
                ELSE role[i]]
      /\ UNCHANGED <<member, request>>

\* The process dies, or a statement fails, in the middle of a request.
Fail(r) ==
  /\ request[r].step # "idle"
  /\ Answers(r)
  /\ UNCHANGED <<member, role>>
-----------------------------------------------------------------------------
Arrival(r) ==
  \/ \E o \in Org, c, t \in User :
       ReceiveRemove(r, o, c, t) \/ \E i \in RoleId : ReceiveChange(r, o, c, t, i)
  \/ \E i \in RoleId : ReceiveDeleteRole(r, i) \/ ReceiveUpdateRole(r, i) \/ ReceivePermissions(r, i)
  \/ \E k \in Key : ReceiveCreateRole(r, k)

ManageMember(r) ==
  \/ ReadCaller(r) \/ CheckPermission(r) \/ ReadNewRole(r) \/ ReadTarget(r)
  \/ ReadCurrentRole(r) \/ CountOwners(r)
  \/ SelectMember(r) \/ UpdateMember(r) \/ SoftDeleteMember(r)

ManageRole(r) ==
  \/ FindRole(r) \/ CountMembers(r) \/ SoftDeleteRole(r)
  \/ \E m \in BOOLEAN : WritePermissions(r, m)
  \/ SelectRole(r) \/ UpdateRole(r) \/ FindKey(r)
  \/ \E i \in RoleId : InsertRole(r, i)

Next ==
  \/ \E o \in Org, u \in User : CreateOrganization(o, u)
  \/ Boot
  \/ \E r \in Request : Arrival(r) \/ ManageMember(r) \/ ManageRole(r) \/ Fail(r)

Spec == Init /\ [][Next]_vars
-----------------------------------------------------------------------------
(* Properties.                                                             *)

\* The tables and the requests have their types.
TypeOK ==
  /\ member \in [Seat -> MemberRow \cup {None}]
  /\ role \in [RoleId -> RoleRow \cup {None}]
  /\ request \in [Request -> RequestState]

Created(o) == \E u \in User : member[<<o, u>>] # None

Owners(o) == {u \in User : <<o, u>> \in ActiveMember /\ IsOwnerRole(member[<<o, u>>].role)}

\* An organization has exactly one active member with the owner role, whatever
\* changes, removals and catalog edits overlap: reads that are stale when the
\* write comes never cost it its owner or give it another.
SingleOwner == \A o \in Org : Created(o) => \E u \in User : Owners(o) = {u}

\* The owner of an organization is the user who created it, for ever.
OwnershipNeverMoves ==
  [][\A o \in Org : Created(o) => Owners(o)' = Owners(o)]_vars

\* A key names one role of the catalog at most: two creations, a boot and a
\* creation, or a restored role and a new one never share it.
KeysAreUnique ==
  \A i, j \in ActiveRole : role[i].key = role[j].key => i = j

\* The role that creating an organization needs is always there.
OwnerRoleAvailable == KeyTaken(OwnerKey)

\* The role of an active member is in the catalog.  It holds while requests
\* come one at a time; a role is deleted between the check and the save of a
\* change that assigns it otherwise.
AssignedRoleExists ==
  \A p \in ActiveMember : member[p].role \in ActiveRole

\* A removed member stays removed.  It holds while requests come one at a
\* time; the save of a stale entity restores the row otherwise.
RemovedStaysRemoved ==
  [][\A p \in Seat :
       member[p] # None /\ member[p].deleted => member'[p] # None /\ member'[p].deleted]_vars

\* A deleted role stays deleted while requests come one at a time.
DeletedRoleStaysDeleted ==
  [][\A i \in RoleId : role[i] # None /\ role[i].deleted => role'[i] # None /\ role'[i].deleted]_vars
=============================================================================

# gym-saas-be: models, checks and proofs

TLA+ models of the backend (NestJS, TypeORM, Postgres), the TLC runs that check
them on small instances, and the theorems about them that TLAPS checks. The
inventory comes first, then the plan, then the modules that exist with what
their runs and proofs show.

## The system

Every request runs in one Node process of possibly several, on a Postgres
database at the default isolation, READ COMMITTED. Only three operations open a
transaction of their own: the rotation of a refresh token, the creation of an
organization with its owner, and the replacement of a role's permissions; the
seeder of the catalog is a fourth, at boot. Every other use case is a list of
statements that commit one by one, with awaits between them, so requests
interleave at every statement. Saving a loaded entity is a SELECT by id that
sees soft-deleted rows and an UPDATE of every column in which the entity
differs, `deleted_at` among them: a stale entity writes its stale columns back.

| Component | State | Operations | Interacts with | Hard behaviour | What makes it correct |
|---|---|---|---|---|---|
| `modules/sessions` | table `sessions` | start, rotate, revokeOwned, revokeAllExcept, isActive, list | auth | row locks, snapshots of bulk UPDATEs, retries of clients, deadlocks | one live session per family; a token is exchanged once; revocation is final |
| `modules/auth` | none (cookies at the client) | register, login, Google, refresh, logout, device sessions | users, organizations, sessions | steps without a common transaction; guard read before the handler | a failed registration can be completed; the guard's answer bounds the damage of a revoked token |
| `modules/users` | table `users` | create, update profile, set avatar, find | auth, storage, platform-admin | check-then-insert, stale saves of whole rows | one user per email; a session only for who holds the credentials; no save takes an email or password away |
| `modules/organizations` | table `organizations` | create, update, set image, delete, select, onboarding | memberships, permissions, storage | slug derived then inserted; stale saves restore deleted rows | slugs unique among active rows; an organization has an owner from its first commit |
| `modules/memberships` | table `memberships` | change role, remove, list; created with the organization | permissions, roles, organizations | checks and writes in separate statements | exactly one owner; removed stays removed; roles exist |
| `modules/roles`, `modules/permissions` | tables `roles`, `permissions`, `role_permissions` | catalog administration, permission checks, seeding at boot | memberships, guards | count-then-delete, concurrent replacements, concurrent boots | keys unique; owner role present; a set is replaced as a whole, by a replacement and by nothing else |
| `modules/permissions/ownership` | none | validators by level, query scopes | guards | the level decides who may touch a resource | a scope admits exactly what the validator admits |
| `common/context`, `common/guards` | per-request context | middleware, JWT, active organization, permissions | all of the above | each reads the database before the handler does | what was checked still describes the caller |
| `modules/platform-admin` | column of `users` | seeder, guard | users, roles | seeder saves a loaded user | administrators are configured; the guard reads the flag of the moment |
| `modules/storage` | objects in MinIO | put | organizations, users | upload before the database write | no image refers to nothing |
| `common/lib` | none | durations, slugs | auth, organizations | numeric edges | - |
| `common/errors`, `common/filters`, `common/logging` | none | translation of errors, access and error log | all of the above | the order in which filters, guards, pipes and the interceptor come | every error is answered with the status it declares; what is a server error is logged |
| `modules/health`, wiring in `main.ts` and `app.module.ts` | none | - | - | the order of registration | - |
| OpenAPI, configuration | none | - | - | - | - |

`PROJECT.json` lists the same components with their files and what is modelled
of each, and the hazards of the code at their lines.

## Plan

Done:

1. `SessionStore`, with its abstract specification `SessionFamily`, the
   refinement `SessionStoreRefinement`, and the proofs `SessionStoreProofs` and
   `SessionRefinementProofs`.
2. `Memberships`, with the proofs `MembershipsProofs`.
3. `Organizations`, with the proofs `OrganizationsProofs`.
4. `Accounts`, with the proofs `AccountsProofs`.
5. `RolePermissions`, with its abstract specification `PermissionSets` and the
   proofs `RolePermissionsProofs` and `PermissionRefinementProofs`.
6. `Ownership`, `HttpErrors` and `Routes`, pure operators, and
   `RequestPipeline`, which composes them: one request through middleware,
   guards, pipes and use case, over the tables of 1 to 5 as an environment;
   with the proofs `RequestPipelineProofs`.

Every invariant, every action property and both refinements that the passing runs
check are theorems too, five of them with the hypothesis that requests do not
overlap (`members_in_turn`, `organizations_in_turn`). What only TLC checks is
liveness.

To do:

7. `Durations`: the parsing of a duration against a reference definition.

## Sessions

`SessionStore` is the `sessions` table and the requests on it.

| Module | Code |
|---|---|
| `session` | the committed rows; `family` is named by the session that opened it; a refresh token stands for its session, because its hash is stored once and compared for equality |
| `expired`, `Expire` | `expires_at` against the clock; a rotation gives a later expiry, so a chain expires in order |
| `lock` | the row locks of open transactions |
| `request` | what each HTTP request is doing; `seen`, `todo`, `done` are the rows of the UPDATE it runs |
| `jar` | the tokens that reached a client; a client may send any of them at any time, spent or not, twice or at once |
| `LockCurrent`, `CommitRotation` | `rotate`: SELECT ... FOR UPDATE and the decision; the two saves and the commit |
| `BeginSweep`, `SweepRow`, `EndSweep` | the three bulk UPDATEs: the snapshot, the wait for each row's lock with the recheck of the WHERE clause, the commit |
| `Authenticate` | `JwtStrategy.validate`, a statement before the handler |
| `Fail`, `DeadlockVictim` | a crash or an aborted transaction; Postgres breaking a deadlock |

Answers may be lost: `StartSession` and `CommitRotation` choose whether the new
token reaches the client. What is left out: user agent, IP, timestamps other
than the expiry, and the bytes of tokens.

`SessionFamily` says what rotation promises: a family has one token that can be
exchanged, exchanging it makes another the holder, closing the family is final.
`SessionStoreRefinement` maps the table to it: the holder is the unrevoked
session of the family, the spent tokens are the revoked rows.

| Run | Instance | Shows |
|---|---|---|
| `sessions_safety` | 2 users, 2 logins, 2 replacements, 2 requests, all may expire | the safety properties while any requests overlap, fail and are repeated; the table implements the abstract chain; requests touch only their user's sessions |
| `sessions_liveness` | 1 user, 3 logins, 2 replacements, 2 requests | accepted requests are answered; what a deadlock needs |
| `sessions_reuse_race` | 1 user, 1 login, 2 replacements, 3 requests | violation: a reuse that overlaps a rotation leaves the replacement alive |

The bounds: every hazard but one is two requests that overlap; three are what it
takes for a token to be rotated, reused and rotated again at once
(`sessions_reuse_race`), and the proofs cover any number. Two replacements make
a chain of three; two users show that requests keep to their own. Three
sessions of one user are needed for two `revokeOthers` to lock rows crosswise
(each leaves its own alone). The numbers of logins, replacements and requests
are the sizes of `LoginId`, `ReplacementId` and `Request`; once they are used
up the model stops, hence `CHECK_DEADLOCK FALSE`.

Fairness (only `sessions_liveness` uses it): weak fairness of `Progress(r)`,
the steps of the server and the database. Node's event loop and Postgres serve
what they have accepted, and Postgres breaks deadlocks. Clients, expiry and
failures have none. The liveness run has no symmetry.

### What is proved

For every set of users, ids and requests, from `NoneAssumption` alone
(`None` is not one of the other values): `TypeOK`, `OneLiveSessionPerFamily`,
`ChainIntegrity`, `TokenExchangedOnce`, `SweepRevokesWhatItSaw`,
`RevocationIsPermanent`, `DeadFamilyStaysDead`, `RevokesOnlyOwn`, and that the
table implements `SessionFamily` (`SessionRefinementProofs`). No run checks
`DeadFamilyStaysDead` by itself: a closed family stays closed in `SessionFamily`.

The inductive invariant `IInv` adds what each request relies on
(`RequestInv`): a rotation past its SELECT still holds the lock of an unrevoked
row; a sweep accounts for each row of its snapshot as pending, locked for
update by it, or already revoked. Without the first, two rotations of one token
could both commit; without the second, a sweep could end over a live row of its
snapshot. `FamilyOpened` says that the session that named a family is stored,
so a login never joins an existing family. There is one lemma per action,
over a frame lemma for the requests that do not move. The refinement shows that a
login maps to `Open`, a commit of a rotation to `Exchange`, the end of a sweep
to `Close` or a stutter, and everything else to a stutter.

`DeadlockTakesTwoRevokeOthers` has an invariant of its own, `WaitInv`: what each
request holds and waits for (`Waits`), and an order among the reuses. Logouts
and revocations of one session hold nothing while they wait, so no circle has one. A reuse
holds the spent token it was given and waits for at most one row, as its
snapshot has one live session of the family. If another reuse holds that row,
it was spent after the snapshot. `ReusesInOrder` says so without a clock: of
every set of reuses there is one whose token none of the set waits for. In a
circle of waits that one is waited for by a `revokeOthers`; were it the only one
in the circle, it would have locked a live session of the family and wait for
the spent token, so that its snapshot had two live sessions of one family.

Only model-checked: `RequestsAreAnswered`, since liveness is out of the prover's
reach.

## Memberships and the role catalog

`Memberships` is the tables `memberships` and `roles`, and the requests that
change them.

| Module | Code |
|---|---|
| `member` | one row per seat (organization and user): rows are only created with their organization, never added |
| `role` | the catalog; `manages` stands for the permissions `members:update_role` and `members:remove`, granted together as the seeded sets do |
| `request` | the step of each request and what it has read; a slot is reused after its answer, so slots bound overlap only |
| `ReadCaller`, `CheckPermission` | `requirePermission`: the membership of the caller, then its role's permissions; nobody changes their own role |
| `ReadNewRole`, `ReadTarget`, `ReadCurrentRole`, `CountOwners` | the reads of `change-member-role` and `remove-member`, in their order |
| `SelectMember`, `UpdateMember` | `save` of the loaded membership: the SELECT finds the differing columns, the UPDATE writes those |
| `SoftDeleteMember` | `softDelete` by id |
| `FindRole`, `CountMembers`, `SoftDeleteRole` | `delete-role`; `FindRole` is also the look-up of the update and of the permissions |
| `SelectRole`, `UpdateRole` | the save of `update-role`, of which only the restoring of a deleted row is kept |
| `FindKey`, `InsertRole` | `create-role` and the partial unique index on the key |
| `WritePermissions` | the transaction of `replace-role-permissions` |
| `CreateOrganization` | the transaction that inserts the organization and its owner's membership |
| `Boot` | the seeder of the catalog, one transaction; a restart may come at any time |
| `Fail` | a crash or a failing statement in the middle of a request |

`Init` is a database after a first boot, with or without organizations. The
members that are not owners come from the invitations of earlier releases: the
code at this commit changes and removes such members but creates none. The guards
in front of the handler (`ActiveOrgGuard`, `PermissionGuard`) repeat a check the
use case makes; a request of the model begins at the use case.

| Run | Instance | Shows |
|---|---|---|
| `members_overlap` | 1 organization, 2 users, 3 role ids, 3 keys, 2 requests | with any two requests overlapping: one owner, who never changes; unique keys; the owner role is there |
| `members_in_turn` | 2 organizations, 2 users, 4 role ids, 1 request | one request at a time: assigned roles exist, removed members and deleted roles stay so |
| `members_removal_race` | as `members_overlap` | violation: a stale role change undoes a removal |

Two requests are enough for every hazard: each is a read of one request made
stale by a write of another. Two users are an owner and a member to act on;
users are interchangeable and a request names at most two. Three role ids leave one for a role
created after the seeded two, which a boot and a creation compete for. `Org`,
`User`, `RoleId` and `Request` are symmetric; every role id that is used stays
used, so `RoleId` bounds the roles ever created. The number of requests in a
behaviour is not bounded. The model never stops: requests keep coming.

### What is proved

For every set of organizations, users, roles, keys and request slots, from
`NoneAssumption` and `SeedAssumption` (the owner role is seeded; the seeded keys
are keys): `TypeOK`, `SingleOwner`, `OwnershipNeverMoves`, `KeysAreUnique`,
`OwnerRoleAvailable`.

Why stale reads never cost an organization its owner: the owner role is one
role id for ever (`CatalogInv`: it is never deleted, so no boot and no creation
makes another); no request that has passed `ReadNewRole` carries it as the role
to assign; and no request that has passed `CountOwners` targets the seat of an
owner, since that seat has held the role from the beginning and the count was
one. `RequestInv` states these facts per request, `TablesGrow` what every step
does to the rows, and the invariant `IInv` is their conjunction with the
properties. The count alone would not do: it is read before the write. It works
because ownership never changes hands.

The properties of `members_in_turn` fail for two requests that overlap: a stale
role change undoes a removal (`members_removal_race`), a stale save restores a
role, and a role that is deleted between the look-up and the assignment stays
assigned. They are proved, for any number of slots, of the behaviours in which
requests come in turn: `AssignedRoleExists`, `RemovedStaysRemoved` and
`DeletedRoleStaysDeleted` under `[]InTurn`, of two slots one is idle. The
hypothesis holds always where there is one slot, as in the run, and says no more
than that requests do not overlap: boots and creations of organizations still
come between two statements. `TurnInv` adds to `IInv` what a request served
alone knows (`Fresh`): the role and the membership it has found are still
active when it writes, and a role it is about to delete still has no member.

## Organizations

`Organizations` is the table `organizations`, the memberships as far as a
request about an organization reads them, and the object store.

| Module | Code |
|---|---|
| `org` | the rows: slug, the editable columns, `deleted_at`; an id is used once |
| `rank` | the membership of each seat, as the permissions of its role; `removed` is a soft-deleted one |
| `stored` | the objects in MinIO, which nothing deletes |
| `CheckPermission` | `PermissionGuard.canActivate`, then `requirePermission` in the use case: two reads at different times |
| `Load`, `Patched`, `Upload` | the reads and assignments of `update-organization` and `set-organization-image`; the upload lies between the read and the save |
| `SelectRow`, `UpdateRow` | `save` of the loaded entity; the partial unique index refuses to restore a row whose slug was taken |
| `SoftDelete` | `delete-organization`; the memberships stay |
| `FindSlug`, `Insert` | `deriveUniqueSlug`, one query per candidate, then the transaction with the owner's membership |
| `ReadContext`, `Handle` | the middleware that accepts the active organization cookie, and whatever runs behind it |
| `ChangeMember` | the environment: the requests of `Memberships`, which never touch an owner |
| `Fail` | a crash or a failing call; a stored file stays |

| Run | Instance | Shows |
|---|---|---|
| `organizations_overlap` | 2 organizations, 1 user, 2 names, 1 file, 2 requests | unique slugs and stored images under any two overlapping requests; the search for a free slug ends |
| `organizations_in_turn` | 2 organizations, 2 users, 1 file, 1 request | one request at a time: tenants apart, deletion final, other columns kept |

The bounds: a slug conflict takes two organizations, a stale save two requests.
The names are "gym" and "gym 2", whose candidates overlap: the second of one is
the first of the other; two columns show what an edit leaves alone. `Tries` exceeds the number of organizations, so a free
candidate exists within the bound; `Org` bounds the organizations ever created
and `File` the uploads. `organizations_overlap` checks liveness and so has no
symmetry; elsewhere ids, users, values, files and slots are symmetric. It
assumes weak fairness of `Progress(r)`, the steps of an accepted request;
clients and failures have none, and a request that waits for an id or a file
the bounds no longer give is outside the property, which is about the loop.

### What is proved

For every set of organizations, users, names, files and request slots, from the
assumptions on the constants (`None` is another value; the columns are distinct;
candidates of one name differ): `TypeOK`, `ActiveSlugsUnique`,
`ImagesAreStored`, `TenantWritesByMembers`. `RequestInv` records what makes a
stale request harmless for them: rows and memberships are never taken away, so
what a request found is still there in some form, and the entity it holds came
from a row whose images were stored. The slug of a row never changes, so a save
can only break uniqueness by restoring the row, which the index refuses.

`DeletedStaysDeleted` and `EditsKeepOtherColumns` are false of requests that
overlap: a stale save restores the row, or undoes another edit. They are proved,
for any number of slots, under `[]InTurn`, of two slots one is idle, which holds
always where there is one slot, as in `organizations_in_turn`; members still
change between two statements. `TurnInv` says what a save served alone knows:
its row is not deleted, and the entity differs from it only in the columns of the
request.

Only model-checked: `DerivationEnds`, which is liveness.

## Accounts

`Accounts` is the table `users`: how its rows come to be, how a request proves
that it acts for one of them, and the saves of loaded users.

| Module | Code |
|---|---|
| `user` | the rows; a hash stands for the password it matches; `provider` is implied, LOCAL for the rows with a password |
| `signedIn` | the users for whom a session was started, as a guard of the edits; the sessions themselves are in `SessionStore` |
| `vouched` | history, read by no action: the pairs of Google id and email that Google has sent |
| `FindEmail`, `Insert` | `create-user`: the look-up, then the insert under the unique index on the email |
| `CreateOrganization`, `StartSession` | the later steps of a registration; `Organizations` and `SessionStore` have their statements |
| `Login`, `RefuseLogin` | `login`: the look-up by email and the comparison of the password |
| `FindGoogle`, `Link` | `google-auth`: by Google id, then by email, whose account gets the id whatever id it had, then a new user |
| `Load`, `Seed` | the reads of `update-user-profile`, `set-user-avatar` and the seeder of platform administrators |
| `SelectRow`, `UpdateRow` | `save` of the loaded user: the columns that differ at the SELECT are written |
| `Boot`, `Fail` | a process that starts, or dies in the middle of a request |

| Run | Instance | Shows |
|---|---|---|
| `accounts_overlap` | 2 users, emails, passwords and Google accounts, 1 configured email, 2 requests | entitled sign-ins, configured administrators, kept credentials under any two overlapping requests |

The bounds: a user to be mistaken for another takes two of each; an email that
is configured and one that is not tell administrators apart; two requests make
an entity stale. The profile has one value, since no property reads it: the
edits matter as saves of stale users. `Email` is not symmetric, because one is
configured. The number of requests is not bounded. The model never stops: a
boot can always begin.

### What is proved

For every set of users, emails, passwords, Google accounts, configured emails
and request slots, from `NoneAssumption` and `AdminAssumption` (the configured
emails are emails): `TypeOK`, `EmailsUnique`, `SignInsAreEntitled`,
`AdminsAreConfigured`, `CredentialsStay`. Of these `EmailsUnique` rests on the index
alone, so no run checks it.

`SignInsAreEntitled` looks at the row when the session starts, several
statements after the row was found. It is invariant because rows are not taken
away and never change email or password (`RowsStay`), and because every row that
is stored or held by a request is `Sound`: its Google id has been vouched for
with its email, and it has the flag only with a configured email. Soundness of
the held entities (`EntityInv`) is what makes a stale save harmless for these
properties: it writes columns of one sound row into another of the same email.
The Google id of a row may still change from one vouched id to another, or be
lost to a stale save.

## Permission sets

`RolePermissions` is the table `role_permissions`, the replacement of the set of
a role, and the sets the seeder writes.

| Module | Code |
|---|---|
| `role` | the catalog of roles, as far as a replacement reads it |
| `live`, `dead` | the committed rows without and with `deleted_at`; a row is named by role, code and who inserted it, since the table keeps every row |
| `request` | what each replacement is doing; `seen` is the snapshot of its UPDATE, `todo` what it has left of it, `put` how many rows it has inserted |
| `FindRole`, `CheckCodes` | the reads of `replace-role-permissions`, before the transaction |
| `BeginDelete`, `DeleteRow` | `softDelete({ roleId })`: one UPDATE, whose condition does not exclude rows that are deleted already; it waits for the rows other transactions have locked |
| `InsertRow` | the INSERT of the list under the partial unique index: it waits for whoever is adding or removing the same permission, and fails if the permission is there |
| `Commit`, `Fail`, `DeadlockVictim` | the end of the transaction |
| `Boot` | the seeder: it gives the roles it creates their sets, and leaves the others alone |
| `CreateRole`, `DeleteRole` | roles without permissions, and permissions without a role |

`PermissionSets` says what the two statements amount to: a replacement is a
moment at which the set becomes the list and what was added since the
replacement opened. Two that overlap therefore leave the union of their lists,
although the documentation of the role catalog promises "exactly that list".

| Run | Instance | Shows |
|---|---|---|
| `permissions_overlap` | 2 roles, 2 codes in the catalog and one outside, 5 lists, 2 replacements | what a role grants is what was written and nobody replaced; permissions go only by a replacement; the rows implement sets; replacements end |

The bounds: two replacements of one role are what every hazard here takes; the
lists contain nothing, both codes in either order (which deadlock), an unknown
code and a code twice (which the index refuses). `Request` bounds the
replacements ever made, `Role` the roles ever created; once they are used up
only boots remain, hence `CHECK_DEADLOCK FALSE`. `ReplacementsEnd` assumes weak
fairness of `Progress(r)`, the steps of a request the server has accepted and
of the database, which also breaks deadlocks; clients, boots and failures have
none.

### What is proved

For every set of roles, keys, codes, lists and replacements, from
`NoneAssumption`, `SeedAssumption` (the owner role is seeded, with codes of the
catalog), `ListAssumption` (lists are sequences of codes, one of them empty) and
`ReplacementAssumption` (`None` is no open replacement of `PermissionSets`):
`TypeOK`, `GrantsAreWhatNobodyReplaced`, `PermissionsGoByReplacement`, that the
table implements `PermissionSets` (`PermissionRefinementProofs`), and
`NoPermissionTwice`, which no run checks by itself.

The inductive invariant `IInv` adds three facts to the properties.
`RowsHaveOrigin`: a row belongs to a role that was created, and to the seeds or
to a replacement that has committed; so a boot that creates a role meets no row
and no open replacement of it, and no transaction inserts a row that is there
already. `InsertsAreApart`: no two open transactions have inserted the same
permission, which is what the waits of `InsertRow` are for; without it two
commits would leave two live rows. `RequestInv`: what each replacement has seen
is still a committed row, and of its role no live row it has not deleted grants
what it has inserted. That no permission is granted by two rows is more than
the index says: the refinement needs it, since what an open replacement spares
is a set of codes in `PermissionSets` and a set of rows in the table.

The refinement maps a boot to `Seed`, `BeginDelete` to `Open`, the commit to
`Replace`, the rollback of an open transaction to `Abandon`, and everything else to a
stutter.

Only model-checked: `ReplacementsEnd`, which is liveness.

## Request pipeline

`RequestPipeline` follows one request from the middleware to its answer while
the tables change under it. It is the composition of the other modules: their
requests are its environment, one committed change at a time.

| Module | Code |
|---|---|
| `Routes` | the decorators of the controllers: guards, path, permission, filters; and per use case the permission it requires itself, its reads and its errors |
| `HttpErrors` | the errors of the program, the filters and the order they are asked in, the statuses, the two logs |
| `Ownership` | levels, validator, registry, scope of a query, the ownership check of the permission guard |
| `fact` | the rows that authorize, present or not: live sessions, memberships with their role, roles, grants, organizations, administrators |
| `ever`, `kept` | history, read by no step of the request: what was there at some moment, and at every moment, since it arrived |
| `request.todo` | the steps the request has left, `Plan(route)` |
| `ReadContext`, `LoseContext` | `AuthContextMiddleware.use`; a membership that cannot be read counts as none |
| `ReadSession`, `CheckActiveOrg`, `ReadAdmin`, `Throttle`, `AskGoogle` | the guards |
| `ReadSeat`, `ReadRole`, `ReadCodes` | `checkPermission`, three statements, first for the guard and again for the use case; an id that is no UUID fails the first |
| `Pipes`, `ValidateImage`, `FindOrganization` | the validation of body and path, and the reads of the use cases |
| `ReadSeats`, `OpenSeat`, `Look` | `list-my-organizations`: the memberships, then organization and role of each, both queries at once |
| `Refuse`, `Finish` | an error or a result, on its way through interceptor and filters |
| `Change` | `RevokeSession`, `ChangeMemberRole`, `RemoveMember`, `DeleteRole`, ...: the statements of the other requests |

The writes of a use case are in the modules about its tables; here they are
the step `work`, which succeeds or raises one of the errors the use case has.
Expiry of a session counts as its revocation. No route declares a resource, so
`CheckOwnership` is compared with `Scope` over the memberships that arise, and
is no step.

| Run | Instance | Shows |
|---|---|---|
| `pipeline` | 1 user, 2 organizations, 2 roles, 1 session, every route, 3 starting states, 2 changes | who never was entitled while the request ran gets past no guard and learns nothing; who was throughout, in an organization that stood, is served; listings hold what stood; errors are answered and logged for what they are; a scope admits what the validator admits |
| `pipeline_duplicate_email` | the same | violation: an email that is taken is answered with 500 |

The bounds: facts are about one user at a time, so one caller is enough; a
second organization is one to be mistaken for the first, a second role one to
be switched to. One change makes a read stale; two are a switch and its reverse,
or two halves of a mixture. The starting states have everything present; the
session revoked; and a caller who is no administrator, left one organization and
works in one that is deleted. The path and the cookie are free, malformed ids
included. The request ends, hence `CHECK_DEADLOCK FALSE`. No liveness is stated:
a request has a finite plan and waits for nothing but its own statements.

The two main properties bound an answer from both sides. The guards read
piecemeal, so neither could be stated about one moment: `StrangersLearnNothing`
asks for the facts at some moment of the request, which allows an answer that
mixes moments, and `EntitledAreServed` for the facts at all of them. The second
asks also that the organization of the path stood at all of them: the
specification of the organization context wants the members of a deleted one
refused. The code serves them as far as their membership and role go, and the model does
likewise; no property asks for either.

### What is proved

For every set of users, organizations, roles, sessions and permissions, every
route of `Routes`, every set of starting facts and every number of changes, each
property of the run: `TypeOK`, `StrangersLearnNothing`, `EntitledAreServed`,
`ListingHasWhatStood`, `AnswersTellTheError`, `ScopeAdmitsWhatIsOwned`. The
assumptions: a session has a user, a role the level `SELF` or `ORGANIZATION` (the
seeds have no other, and the DTOs accept no other), a request finds a membership
with one role (`StartAssumption`, the unique index), and `None` and `Malformed` are
no ids, resources or contexts.

The invariant `IInv` ties what a request has left to do to what is known of it.
`Course`: `request.todo` is the end of the plan of its route, so the step it is
at says which it has passed, and a look-up of a permission comes in one piece.
`Learnt`: each step that is passed found its fact at its moment; stated over
`ever`, which only grows, this survives whatever the others commit next.
`Noticed` and `Complete`: a fact of `kept` was there at each of those moments,
so no read has missed it; stated over `kept`, which only shrinks, this survives
too. `StrangersLearnNothing` follows from the first, `EntitledAreServed` from the
second (the invariant has it of any organization, deleted or not), and a listing is bounded by both (`Found`, `Complete`). `OneSeat` is
needed for the second: the role that was read is the role that was kept.

`AnswersTellTheError` and `ScopeAdmitsWhatIsOwned` rest on the operators of
`HttpErrors`, `Routes` and `Ownership` more than on the steps: the lemmas about
errors go through the filters of every controller, and that about the scope
through the levels.

## Findings

The three violation runs show disagreements between the repository's
specifications and tests and the code, quoted in `PROJECT.json`: the reuse
detection misses a session that is being rotated (and so does the revocation of
the other sessions); a stale role change restores a removed member (as a stale
edit does a deleted organization or role); and the filter that would answer 409
to an email that is taken is asked after the one that answers 500, an order
NestJS decides and the model takes as given.

Met on the way, listed as hazards, without a run of their own: a role can be
deleted while it is being assigned; the memberships of a deleted organization
still give an active organization; overlapping replacements of a permission set
leave the union; the access log records 500 for every domain error and leaves
out what guards refuse; a path id that is no UUID is a server error on the routes
whose guard queries it.

## Not modelled

Hashing, JWT signatures, cookies' attributes, validation of single fields of
DTOs, the wording of errors and log entries, API documentation and configuration
keep no state or only format it. Creating the MinIO bucket at boot, the request
id and the audit columns are read by nothing that is modelled. The parsing of
durations is planned. The hazards without a property have a note in
`PROJECT.json`.

## Running

In this directory: `tlc -workers 2 -config sessions_safety.cfg MCSessionStore`,
and likewise for the other configurations with the module their name begins
with (`sessions_*`: `MCSessionStore`, `members_*`: `MCMemberships`,
`organizations_*`: `MCOrganizations`, `accounts_*`: `MCAccounts`,
`permissions_*`: `MCRolePermissions`, `pipeline*`: `MCRequestPipeline`);
`tlapm SessionStoreProofs.tla` for the proofs of that module, and likewise for
`SessionRefinementProofs`, `MembershipsProofs`, `OrganizationsProofs`,
`AccountsProofs`, `RolePermissionsProofs`, `PermissionRefinementProofs` and
`RequestPipelineProofs`. No theorem is about liveness or ENABLED, which the prover
does not handle: `RequestsAreAnswered`, `DerivationEnds` and `ReplacementsEnd` stay
with TLC, and so do the violations, which are counterexamples. The operators marked
"Mutant" are changed forms of an action, used to see that a property can fail;
no specification refers to them.
